---- MODULE Spec2Model ----
(***************************************************************************)
(* Verification model of the intent-based router: the in-memory session    *)
(* store (InMemorySessionManager), the edit-target resolver                *)
(* (ImageEditingGraph.determineTargetImage), the job polling loop          *)
(* (FluxApiService.pollForCompletion) and the dispatcher                   *)
(* (ChatService.processMessage).                                           *)
(***************************************************************************)
EXTENDS Integers, Sequences, FiniteSets, TLC

VARIABLES
    sessions,       \* InMemorySessionManager.sessions: sessionId -> SessionState
    nextSessionId,  \* the next fresh uuid of createSession
    now,            \* Date.now(), in milliseconds
    lastResult,     \* what the last store call returned (or threw)
    remote,         \* the remote image API: its answer to the i-th status query
    maxAttempts,    \* pollForCompletion: the attempt budget of the call
    attempts,       \* pollForCompletion: the local `attempts`
    queries,        \* status queries made so far by the call
    operation,      \* the FluxApiService call under way: generateImage or editImage
    pollPc,         \* "submit" before the POST, "raised"/"returned" when it ended the
                    \* call, "loop" while pollForCompletion polls, "done" once it left
    pollOutcome,    \* pollForCompletion: what it returned or threw
    calls,          \* the processMessage calls made so far, each with its position
    chatHistory,    \* ChatGraph.conversationHistory (one for the whole process)
    isInitialized,  \* ChatService.isInitialized
    intentInitialized,  \* IntentDetectionService.isInitialized
    detection,      \* the last detectIntent call: its input, what the LLM graph
                    \* did, and what the call returned
    cleanupInterval,  \* InMemorySessionManager.cleanupInterval: the sweep's timer
    storeCalls      \* store calls under way at their `await this.getSession(...)`,
                    \* and the calls that have returned, in the order they returned

storeVars == <<sessions, nextSessionId, now, lastResult>>
pollVars == <<remote, maxAttempts, attempts, queries, operation, pollPc, pollOutcome>>
dispatchVars == <<calls, chatHistory, isInitialized>>
classifyVars == <<intentInitialized, detection>>
sweepVars == <<cleanupInterval>>
asyncVars == <<storeCalls>>

(***************************************************************************)
(* Program constants                                                       *)
(***************************************************************************)
SESSION_TIMEOUT == 24 * 60 * 60 * 1000
MAX_CONVERSATION_HISTORY == 50
MAX_ACTIVE_IMAGES == 10

(***************************************************************************)
(* Bounds of the model                                                     *)
(***************************************************************************)
MaxSessions == 1        \* createSession calls
MaxAddImage == 2        \* addImage calls on the live sessions
MaxTurns == 3           \* addConversationTurn calls after the history's prefill
MaxTicks == 3           \* clock advances
MaxPolls == 3           \* the largest attempt budget of a pollForCompletion call
MaxCalls == 1           \* processMessage calls
MaxStoreCalls == 3      \* concurrent store calls on one session
MaxConcurrent == 2      \* concurrent processMessage calls on one session

(***************************************************************************)
(* Values                                                                  *)
(***************************************************************************)
Null == "null"
\* pollForCompletion has neither returned nor thrown.
NoOutcome == [kind |-> Null, message |-> Null, attempts |-> 0]

\* No store call is under way and none has returned.
NoStoreCalls == [awaiting |-> <<>>, returned |-> <<>>]

\* setInterval's handle of the hourly sweep.
Armed == "armed"

\* No detectIntent call has been made.
NoDetection == [called |-> FALSE]
IntentType == {"chat", "generate-image", "edit-image", "unknown"}
GeneratedBy == {"user_upload", "flux_generation"}

\* Text is a sequence of characters; upper-case letters are written "A".."Z".
CharLower(c) ==
    CASE c = "L" -> "l"
      [] c = "F" -> "f"
      [] c = "S" -> "s"
      [] OTHER -> c

toLowerCase(s) == [i \in 1..Len(s) |-> CharLower(s[i])]

\* String.prototype.includes: needle occurs as a contiguous substring.
includes(hay, needle) ==
    \E i \in 0..(Len(hay) - Len(needle)) :
        \A j \in 1..Len(needle) : hay[i + j] = needle[j]

\* instruction.split(' ')[0]: the text before the first space.
RECURSIVE FirstToken(_)
FirstToken(s) ==
    IF s = <<>> \/ Head(s) = " " THEN <<>>
    ELSE <<Head(s)>> \o FirstToken(Tail(s))

(***************************************************************************)
(* JavaScript helpers                                                      *)
(***************************************************************************)
Min(a, b) == IF a < b THEN a ELSE b

\* Array.prototype.slice(0, n)
SliceFirst(s, n) == SubSeq(s, 1, Min(n, Len(s)))

\* Array.prototype.slice(-n), n > 0
SliceLast(s, n) == IF Len(s) <= n THEN s ELSE SubSeq(s, Len(s) - n + 1, Len(s))

\* A Map<string, ImageMetadata> is the sequence of its values in insertion
\* order; the key of a value is its id.
MapHas(m, k) == \E i \in 1..Len(m) : m[i].id = k

MapKeys(m) == {m[i].id : i \in 1..Len(m)}

MapGet(m, k) == m[CHOOSE i \in 1..Len(m) : m[i].id = k]

\* Map.prototype.set: an existing key keeps its position.
MapSet(m, k, v) ==
    IF MapHas(m, k)
    THEN [i \in 1..Len(m) |-> IF m[i].id = k THEN v ELSE m[i]]
    ELSE Append(m, v)

\* The place of x in a list sorted by uploadedAt descending, after its equals.
InsertByUploadedAtDesc(sorted, x) ==
    LET k == Cardinality({i \in 1..Len(sorted) : sorted[i].uploadedAt >= x.uploadedAt})
    IN SubSeq(sorted, 1, k) \o <<x>> \o SubSeq(sorted, k + 1, Len(sorted))

\* allImages.sort((a, b) => b.uploadedAt - a.uploadedAt): stable, newest first.
RECURSIVE SortByUploadedAtDesc(_)
SortByUploadedAtDesc(s) ==
    IF s = <<>> THEN <<>>
    ELSE InsertByUploadedAtDesc(SortByUploadedAtDesc(SubSeq(s, 1, Len(s) - 1)), s[Len(s)])

(***************************************************************************)
(* InMemorySessionManager                                                  *)
(***************************************************************************)
NewSession(sid, t) ==
    [ sessionId |-> sid,
      createdAt |-> t,
      lastActivity |-> t,
      conversationHistory |-> <<>>,
      currentContext |-> [lastIntent |-> Null, activeImages |-> <<>>, pendingAction |-> Null],
      uploadedImages |-> <<>>,
      generatedImages |-> <<>>,
      metadata |-> [totalMessages |-> 0, totalImagesUploaded |-> 0, totalImagesGenerated |-> 0] ]

IsExpired(s, t) == t - s.lastActivity > SESSION_TIMEOUT

\* getSession without the test of the session's age.
getSessionFoundIgnoresAge(ss, sid, t) == sid \in DOMAIN ss

\* getSession: whether a session is returned ...
getSessionFound(ss, sid, t) == sid \in DOMAIN ss /\ ~IsExpired(ss[sid], t)

\* getSession without the delete of the expired session.
getSessionStoreKeepsExpired(ss, sid, t) == ss

\* ... and the store it leaves: an expired session is deleted.
getSessionStore(ss, sid, t) ==
    IF sid \in DOMAIN ss /\ IsExpired(ss[sid], t)
    THEN [k \in DOMAIN ss \ {sid} |-> ss[k]]
    ELSE ss

\* addConversationTurn without the trim of the history.
addConversationTurnToNoTrim(s, turn, t) ==
    [s EXCEPT
        !.conversationHistory = Append(@, turn),
        !.currentContext.lastIntent = turn.detectedIntent,
        !.metadata.totalMessages = @ + 1,
        !.lastActivity = t]

\* addConversationTurn that drops the newest turns of a full history.
addConversationTurnToKeepsOldest(s, turn, t) ==
    [s EXCEPT
        !.conversationHistory = SliceFirst(Append(@, turn), MAX_CONVERSATION_HISTORY),
        !.currentContext.lastIntent = turn.detectedIntent,
        !.metadata.totalMessages = @ + 1,
        !.lastActivity = t]

\* The body of addConversationTurn on a found session.
addConversationTurnTo(s, turn, t) ==
    LET pushed == Append(s.conversationHistory, turn)
    IN [s EXCEPT
          !.conversationHistory =
              IF Len(pushed) > MAX_CONVERSATION_HISTORY
              THEN SliceLast(pushed, MAX_CONVERSATION_HISTORY)
              ELSE pushed,
          !.currentContext.lastIntent = turn.detectedIntent,
          !.metadata.totalMessages = @ + 1,
          !.lastActivity = t]

\* addImage with the cap test off by one (<= for <).
addImageToOffByOne(s, image, t) ==
    LET stored ==
            IF image.generatedBy = "user_upload"
            THEN [s EXCEPT !.uploadedImages = MapSet(@, image.id, image),
                           !.metadata.totalImagesUploaded = @ + 1]
            ELSE [s EXCEPT !.generatedImages = MapSet(@, image.id, image),
                           !.metadata.totalImagesGenerated = @ + 1]
    IN [stored EXCEPT
          !.currentContext.activeImages =
              IF Len(@) <= MAX_ACTIVE_IMAGES THEN Append(@, image.id) ELSE @,
          !.lastActivity = t]

\* The body of addImage on a found session.
addImageTo(s, image, t) ==
    LET stored ==
            IF image.generatedBy = "user_upload"
            THEN [s EXCEPT !.uploadedImages = MapSet(@, image.id, image),
                           !.metadata.totalImagesUploaded = @ + 1]
            ELSE [s EXCEPT !.generatedImages = MapSet(@, image.id, image),
                           !.metadata.totalImagesGenerated = @ + 1]
    IN [stored EXCEPT
          !.currentContext.activeImages =
              IF Len(@) < MAX_ACTIVE_IMAGES THEN Append(@, image.id) ELSE @,
          !.lastActivity = t]

\* updateSession with the updates assigned after the new lastActivity.
updateSessionToUpdatesLast(s, updates, t) ==
    [k \in DOMAIN s |->
        IF k \in DOMAIN updates THEN updates[k]
        ELSE IF k = "lastActivity" THEN t ELSE s[k]]

\* The body of updateSession on a found session:
\* Object.assign(session, updates, { lastActivity: new Date() }).
updateSessionTo(s, updates, t) ==
    [k \in DOMAIN s |->
        IF k = "lastActivity" THEN t
        ELSE IF k \in DOMAIN updates THEN updates[k] ELSE s[k]]

\* The body of setActiveImages on a found session.
setActiveImagesTo(s, imageIds, t) ==
    [s EXCEPT !.currentContext.activeImages = SliceFirst(imageIds, MAX_ACTIVE_IMAGES),
              !.lastActivity = t]

\* getSessionImages: uploads then generations, newest first.
getSessionImages(ss, sid, t) ==
    IF ~getSessionFound(ss, sid, t) THEN <<>>
    ELSE SortByUploadedAtDesc(ss[sid].uploadedImages \o ss[sid].generatedImages)

\* getActiveImages: the active ids that resolve to an image, in list order.
RECURSIVE ResolveActive(_, _)
ResolveActive(s, ids) ==
    IF ids = <<>> THEN <<>>
    ELSE LET id == Head(ids)
             found == IF MapHas(s.uploadedImages, id) THEN <<MapGet(s.uploadedImages, id)>>
                      ELSE IF MapHas(s.generatedImages, id) THEN <<MapGet(s.generatedImages, id)>>
                      ELSE <<>>
         IN found \o ResolveActive(s, Tail(ids))

getActiveImages(ss, sid, t) ==
    IF ~getSessionFound(ss, sid, t) THEN <<>>
    ELSE ResolveActive(ss[sid], ss[sid].currentContext.activeImages)

\* getSessionStats: throws on a missing session.
getSessionStats(ss, sid, t) ==
    IF ~getSessionFound(ss, sid, t) THEN [threw |-> "not found"]
    ELSE [ threw |-> Null,
           messageCount |-> Len(ss[sid].conversationHistory),
           imageCount |-> Len(ss[sid].uploadedImages) + Len(ss[sid].generatedImages) ]

\* ChatService.getSessionHistory
getSessionHistory(ss, sid, t) ==
    IF getSessionFound(ss, sid, t) THEN ss[sid].conversationHistory ELSE <<>>

\* ChatService.getSessionContext
getSessionContext(ss, sid, t) ==
    IF ~getSessionFound(ss, sid, t) THEN [found |-> FALSE]
    ELSE [ found |-> TRUE,
           sessionId |-> ss[sid].sessionId,
           conversationLength |-> Len(ss[sid].conversationHistory),
           lastIntent |-> ss[sid].currentContext.lastIntent,
           activeImages |-> ss[sid].currentContext.activeImages,
           totalImages |-> Len(ss[sid].uploadedImages) + Len(ss[sid].generatedImages) ]

(***************************************************************************)
(* ImageEditingGraph.determineTargetImage                                  *)
(***************************************************************************)
TextLast == <<"l", "a", "s", "t">>
TextRecent == <<"r", "e", "c", "e", "n", "t">>
TextFirst == <<"f", "i", "r", "s", "t">>
TextOriginal == <<"o", "r", "i", "g", "i", "n", "a", "l">>

\* allImages.find(...): the first image whose description or name holds
\* the instruction's first token.
MatchesFirstToken(img, instructionLower) ==
    \/ includes(toLowerCase(img.description), FirstToken(instructionLower))
    \/ includes(toLowerCase(img.originalName), FirstToken(instructionLower))

\* determineTargetImage with the origin markers tested before the recency ones.
determineTargetImageOriginFirst(ss, sid, instruction, t) ==
    IF ~getSessionFound(ss, sid, t) THEN Null
    ELSE IF Len(ss[sid].currentContext.activeImages) > 0
    THEN ss[sid].currentContext.activeImages[1]
    ELSE LET allImages == getSessionImages(ss, sid, t)
             instructionLower == toLowerCase(instruction)
         IN IF Len(allImages) = 0 THEN Null
            ELSE IF includes(instructionLower, TextFirst) \/ includes(instructionLower, TextOriginal)
            THEN allImages[Len(allImages)].id
            ELSE allImages[1].id

determineTargetImage(ss, sid, instruction, t) ==
    IF ~getSessionFound(ss, sid, t) THEN Null
    ELSE IF Len(ss[sid].currentContext.activeImages) > 0
    THEN ss[sid].currentContext.activeImages[1]
    ELSE LET allImages == getSessionImages(ss, sid, t)
             instructionLower == toLowerCase(instruction)
             matching == {i \in 1..Len(allImages) : MatchesFirstToken(allImages[i], instructionLower)}
         IN IF Len(allImages) = 0 THEN Null
            ELSE IF includes(instructionLower, TextLast) \/ includes(instructionLower, TextRecent)
            THEN allImages[1].id
            ELSE IF includes(instructionLower, TextFirst) \/ includes(instructionLower, TextOriginal)
            THEN allImages[Len(allImages)].id
            ELSE IF matching # {}
            THEN allImages[CHOOSE i \in matching : \A j \in matching : i <= j].id
            ELSE allImages[1].id

(***************************************************************************)
(* Inputs                                                                  *)
(***************************************************************************)
ImageIds == {"A", "B"}

TextSunset == <<"s", "u", "n", "s", "e", "t">>
TextCat == <<"c", "a", "t">>

Fill(x, n) == [i \in 1..n |-> x]

\* Arguments of setActiveImages: below, at and above the cap; an id no map holds.
ActiveImageInputs ==
    { <<>>, <<"ghost">>, Fill("A", MAX_ACTIVE_IMAGES - 1), Fill("B", MAX_ACTIVE_IMAGES + 2) }

\* Edit instructions: "make it brighter", "edit the Last one", "the first", "cat".
Instructions ==
    { <<"m", "a", "k", "e", " ", "i", "t">>,
      <<"e", "d", "i", "t", " ", "L", "a", "s", "t">>,
      <<"t", "h", "e", " ", "f", "i", "r", "s", "t">>,
      TextCat }

Image(id, by, t, text) ==
    [ id |-> id, originalName |-> text, uploadedAt |-> t,
      storageUrl |-> "url", description |-> text, generatedBy |-> by ]

\* A ConversationTurn; ids are fresh (uuidv4).
Turn(id, intent) == [id |-> id, detectedIntent |-> intent]

\* The ConversationTurn of a processMessage call, with its confidence in percent.
ConversationTurn(id, intent, confidence) ==
    [id |-> id, detectedIntent |-> intent, confidence |-> confidence]

\* A failed call that reports success.
NotFoundSwallowed(op, sid) == [op |-> op, sessionId |-> sid, ok |-> TRUE, value |-> Null]

\* The call threw `Session ${sessionId} not found` (or, for a read, found nothing).
NotFound(op, sid) == [op |-> op, sessionId |-> sid, ok |-> FALSE, value |-> Null]
Returned(op, sid, v) == [op |-> op, sessionId |-> sid, ok |-> TRUE, value |-> v]

\* Session ids a caller may pass: every id created so far and one never created.
SessionIdInputs == 1..(MaxSessions + 1)

(***************************************************************************)
(* Operations of the session store                                         *)
(***************************************************************************)
CreateSession ==
    /\ nextSessionId <= MaxSessions
    /\ sessions' = [k \in DOMAIN sessions \cup {nextSessionId} |->
                       IF k = nextSessionId THEN NewSession(nextSessionId, now) ELSE sessions[k]]
    /\ nextSessionId' = nextSessionId + 1
    /\ lastResult' = Returned("createSession", nextSessionId, Null)
    /\ UNCHANGED now

GetSession(sid) ==
    /\ sessions' = getSessionStore(sessions, sid, now)
    /\ lastResult' = IF getSessionFound(sessions, sid, now)
                     THEN Returned("getSession", sid, Null)
                     ELSE NotFound("getSession", sid)
    /\ UNCHANGED <<nextSessionId, now>>

\* A mutating call: throws `Session not found` unless getSession finds it.
Mutate(op, sid, after, v) ==
    /\ IF getSessionFound(sessions, sid, now)
       THEN /\ sessions' = [sessions EXCEPT ![sid] = after]
            /\ lastResult' = Returned(op, sid, v)
       ELSE /\ sessions' = getSessionStore(sessions, sid, now)
            /\ lastResult' = NotFound(op, sid)
    /\ UNCHANGED <<nextSessionId, now>>

AddConversationTurn(sid, turn) ==
    Mutate("addConversationTurn", sid, addConversationTurnTo(sessions[sid], turn, now), Null)

AddImage(sid, image) ==
    Mutate("addImage", sid, addImageTo(sessions[sid], image, now), image.id)

SetActiveImages(sid, imageIds) ==
    Mutate("setActiveImages", sid, setActiveImagesTo(sessions[sid], imageIds, now), Null)

\* Arguments of updateSession: a pending action recorded in the context.
UpdateInputs ==
    { [currentContext |-> [lastIntent |-> "edit-image", activeImages |-> <<>>,
                           pendingAction |-> "edit"]] }

UpdateSession(sid, updates) ==
    Mutate("updateSession", sid, updateSessionTo(sessions[sid], updates, now), Null)

DeleteSession(sid) ==
    /\ sessions' = [k \in DOMAIN sessions \ {sid} |-> sessions[k]]
    /\ lastResult' = [op |-> "deleteSession", sessionId |-> sid,
                      ok |-> sid \in DOMAIN sessions, value |-> Null]
    /\ UNCHANGED <<nextSessionId, now>>

\* A read built on getSession: it returns v and leaves getSession's store.
Read(op, sid, v) ==
    /\ sessions' = getSessionStore(sessions, sid, now)
    /\ lastResult' = [op |-> op, sessionId |-> sid,
                      ok |-> getSessionFound(sessions, sid, now), value |-> v]
    /\ UNCHANGED <<nextSessionId, now>>

DetermineTargetImage(sid, instruction) ==
    Read("determineTargetImage", sid, determineTargetImage(sessions, sid, instruction, now))

\* The addImage calls made so far on the live sessions.
RECURSIVE SumOver(_, _)
SumOver(f, S) ==
    IF S = {} THEN 0
    ELSE LET x == CHOOSE y \in S : TRUE IN f[x] + SumOver(f, S \ {x})

ImagesAdded ==
    SumOver([k \in DOMAIN sessions |->
                sessions[k].metadata.totalImagesUploaded
                + sessions[k].metadata.totalImagesGenerated], DOMAIN sessions)

\* The dispatcher at rest, for the specifications without processMessage calls.
DispatchIdle ==
    /\ calls = <<>>
    /\ chatHistory = <<>>
    /\ isInitialized = FALSE

\* The classifier at rest, for the specifications that do not classify; the
\* constructor of the session manager has armed the hourly sweep.
ClassifyIdle ==
    /\ intentInitialized = FALSE
    /\ detection = NoDetection
    /\ cleanupInterval = Armed
    /\ storeCalls = NoStoreCalls

\* The poller at rest, for the specifications that do not poll.
PollIdle ==
    /\ remote = <<>>
    /\ maxAttempts = 0
    /\ attempts = 0
    /\ queries = 0
    /\ operation = Null
    /\ pollPc = "idle"
    /\ pollOutcome = NoOutcome

StoreInit ==
    /\ PollIdle
    /\ ClassifyIdle
    /\ DispatchIdle
    /\ sessions = <<>>
    /\ nextSessionId = 1
    /\ now = 0
    /\ lastResult = Returned("constructor", 0, Null)

StoreNext ==
    \/ CreateSession
    \/ \E sid \in SessionIdInputs :
        \/ DeleteSession(sid)
        \/ \E ids \in ActiveImageInputs : SetActiveImages(sid, ids)
        \/ \E id \in ImageIds, by \in GeneratedBy :
              /\ ImagesAdded < MaxAddImage
              /\ AddImage(sid, Image(id, by, now, TextSunset))

vars == <<storeVars, pollVars, dispatchVars, classifyVars, sweepVars, asyncVars>>

Spec == StoreInit /\ [][StoreNext /\ UNCHANGED <<pollVars, dispatchVars, classifyVars, sweepVars, asyncVars>>]_vars

(***************************************************************************)
(* Claims about the session store's image bookkeeping (Spec)               *)
(***************************************************************************)
ActiveImagesOf(sid) == sessions[sid].currentContext.activeImages

AddImageSucceeded == lastResult.op = "addImage" /\ lastResult.ok

\* C1: after any sequence of createSession, addImage and setActiveImages
\* calls, every session's active-image list holds at most MAX_ACTIVE_IMAGES ids.
C1_ActiveImagesCapped ==
    \A sid \in DOMAIN sessions : Len(ActiveImagesOf(sid)) <= MAX_ACTIVE_IMAGES

\* C1 witness: addImage has just returned on a session whose list is at the cap.
C1_Witness ==
    /\ AddImageSucceeded
    /\ lastResult.sessionId \in DOMAIN sessions
    /\ Len(ActiveImagesOf(lastResult.sessionId)) = MAX_ACTIVE_IMAGES

\* C3: with a non-empty active-image list the resolver returns the most
\* recently added active image: once addImage(B) has returned, B is in the
\* list and the list names stored images only, every edit instruction
\* resolves to B.
C3_ResolvesToMostRecentlyAdded ==
    ( /\ AddImageSucceeded
      /\ lastResult.sessionId \in DOMAIN sessions
      /\ \E i \in 1..Len(ActiveImagesOf(lastResult.sessionId)) :
            ActiveImagesOf(lastResult.sessionId)[i] = lastResult.value
      /\ \A i \in 1..Len(ActiveImagesOf(lastResult.sessionId)) :
            ActiveImagesOf(lastResult.sessionId)[i]
                \in MapKeys(sessions[lastResult.sessionId].uploadedImages)
                    \cup MapKeys(sessions[lastResult.sessionId].generatedImages) )
    => \A instruction \in Instructions :
          determineTargetImage(sessions, lastResult.sessionId, instruction, now)
              = lastResult.value

\* C4: after a successful addImage(sessionId, image), image.id is the head of
\* the active-image list and the ids that were in the list follow it in their
\* previous order, trimmed to the cap.
C4_AddImagePrepends ==
    [][ (lastResult'.op = "addImage" /\ lastResult'.ok)
        => sessions'[lastResult'.sessionId].currentContext.activeImages
             = SliceFirst(<<lastResult'.value>> \o ActiveImagesOf(lastResult'.sessionId),
                          MAX_ACTIVE_IMAGES) ]_vars

\* C24: after a successful addImage(sessionId, image), whatever the length
\* of the session's active-image list before the call, the list contains
\* image.id.
C24_AddedImageIsActive ==
    ( AddImageSucceeded /\ lastResult.sessionId \in DOMAIN sessions )
        => \E i \in 1..Len(ActiveImagesOf(lastResult.sessionId)) :
              ActiveImagesOf(lastResult.sessionId)[i] = lastResult.value

\* C9: every id in a session's active-image list is the key of an image in
\* exactly one of the session's uploadedImages and generatedImages maps.
C9_ActiveIdsInExactlyOneMap ==
    \A sid \in DOMAIN sessions :
        \A i \in 1..Len(ActiveImagesOf(sid)) :
            MapHas(sessions[sid].uploadedImages, ActiveImagesOf(sid)[i])
                # MapHas(sessions[sid].generatedImages, ActiveImagesOf(sid)[i])

\* The session holds no image: both maps are empty.
HoldsNoImage(s) == Len(s.uploadedImages) = 0 /\ Len(s.generatedImages) = 0

\* C13: on every reachable session whose uploadedImages and generatedImages
\* are both empty, determineTargetImage returns none for every instruction.
C13_NoImagesResolvesToNone ==
    \A sid \in DOMAIN sessions :
        HoldsNoImage(sessions[sid])
        => \A instruction \in Instructions :
              determineTargetImage(sessions, sid, instruction, now) = Null

(***************************************************************************)
(* The conversation history (SpecHistory)                                  *)
(***************************************************************************)
\* The session after k chat turns were appended to it.
RECURSIVE AfterChatTurns(_, _)
AfterChatTurns(s, k) ==
    IF k = 0 THEN s
    ELSE addConversationTurnTo(AfterChatTurns(s, k - 1), Turn(k, "chat"), 0)

\* Histories the specification starts from: empty, and one turn below the cap.
HistoryPrefills == {0, MAX_CONVERSATION_HISTORY - 1}

HistoryInit ==
    /\ PollIdle
    /\ ClassifyIdle
    /\ DispatchIdle
    /\ \E k \in HistoryPrefills :
          sessions = [sid \in {1} |-> AfterChatTurns(NewSession(1, 0), k)]
    /\ nextSessionId = 2
    /\ now = 0
    /\ lastResult = Returned("createSession", 1, Null)

TurnBudgetLeft(sid) ==
    sid \in DOMAIN sessions =>
        \E k \in HistoryPrefills :
            /\ k <= sessions[sid].metadata.totalMessages
            /\ sessions[sid].metadata.totalMessages < k + MaxTurns

HistoryNext ==
    \E sid \in SessionIdInputs :
        \/ GetSession(sid)
        \/ DeleteSession(sid)
        \/ \E intent \in IntentType :
              /\ TurnBudgetLeft(sid)
              /\ AddConversationTurn(sid,
                    Turn(IF sid \in DOMAIN sessions
                         THEN sessions[sid].metadata.totalMessages + 1 ELSE 1, intent))

SpecHistory == HistoryInit /\ [][HistoryNext /\ UNCHANGED <<pollVars, dispatchVars, classifyVars, sweepVars, asyncVars>>]_vars

\* C2: after any number of addConversationTurn calls, a session's
\* conversationHistory holds at most MAX_CONVERSATION_HISTORY turns.
C2_HistoryCapped ==
    \A sid \in DOMAIN sessions :
        Len(sessions[sid].conversationHistory) <= MAX_CONVERSATION_HISTORY

\* C2 witness: a turn was appended to a full history, and the oldest evicted.
C2_Witness ==
    /\ lastResult.op = "addConversationTurn" /\ lastResult.ok
    /\ lastResult.sessionId \in DOMAIN sessions
    /\ sessions[lastResult.sessionId].metadata.totalMessages > MAX_CONVERSATION_HISTORY
    /\ Len(sessions[lastResult.sessionId].conversationHistory) = MAX_CONVERSATION_HISTORY

\* C25: history eviction is FIFO. After n successful addConversationTurn
\* calls on a session (the n-th appended turn has id n), conversationHistory
\* is the last min(n, 50) appended turns in append order, lastIntent is the
\* intent of the last appended turn and totalMessages is n; each call keeps
\* the turns that stay as they were.
C25_HistoryIsFIFO ==
    /\ [](\A sid \in DOMAIN sessions :
            LET h == sessions[sid].conversationHistory
                n == sessions[sid].metadata.totalMessages
            IN /\ Len(h) = Min(n, MAX_CONVERSATION_HISTORY)
               /\ \A i \in 1..Len(h) : h[i].id = n - Len(h) + i
               /\ n > 0 => sessions[sid].currentContext.lastIntent = h[Len(h)].detectedIntent)
    /\ [][ (lastResult'.op = "addConversationTurn" /\ lastResult'.ok) =>
              LET sid == lastResult'.sessionId
                  h == sessions[sid].conversationHistory
                  after == sessions'[sid].conversationHistory
              IN /\ sessions'[sid].metadata.totalMessages
                       = sessions[sid].metadata.totalMessages + 1
                 /\ SubSeq(after, 1, Len(after) - 1) = SliceLast(h, Len(after) - 1) ]_vars

\* C25 witness: two turns were appended to a full history, the last an edit.
C25_Witness ==
    /\ lastResult.op = "addConversationTurn" /\ lastResult.ok
    /\ lastResult.sessionId \in DOMAIN sessions
    /\ LET s == sessions[lastResult.sessionId]
       IN /\ s.metadata.totalMessages = MAX_CONVERSATION_HISTORY + 2
          /\ s.conversationHistory[1].id = 3
          /\ s.conversationHistory[MAX_CONVERSATION_HISTORY].detectedIntent = "edit-image"
          /\ s.currentContext.lastIntent = "edit-image"

(***************************************************************************)
(* Expiry (SpecExpiry): the clock, the reads and the hourly sweep          *)
(***************************************************************************)
\* The clock advances by half the timeout, or by a millisecond more.
TickInputs == {SESSION_TIMEOUT \div 2, SESSION_TIMEOUT \div 2 + 1}

Tick(d) ==
    /\ now \div (SESSION_TIMEOUT \div 2) < MaxTicks
    /\ now' = now + d
    /\ UNCHANGED <<sessions, nextSessionId, lastResult>>

\* A sweep that also removes the sessions that are exactly at the timeout.
cleanupExpiredSessionsAtTimeout(ss, t) ==
    [k \in {x \in DOMAIN ss : ~(t - ss[x].lastActivity >= SESSION_TIMEOUT)} |-> ss[k]]

\* cleanupExpiredSessions: the sweep of the setInterval timer.
cleanupExpiredSessions(ss, t) ==
    [k \in {x \in DOMAIN ss : ~(t - ss[x].lastActivity > SESSION_TIMEOUT)} |-> ss[k]]

CleanupExpiredSessions ==
    /\ sessions' = cleanupExpiredSessions(sessions, now)
    /\ lastResult' = Returned("cleanupExpiredSessions", 0, Null)
    /\ UNCHANGED <<nextSessionId, now>>

GetSessionImages(sid) == Read("getSessionImages", sid, getSessionImages(sessions, sid, now))
GetActiveImages(sid) == Read("getActiveImages", sid, getActiveImages(sessions, sid, now))
GetSessionStats(sid) == Read("getSessionStats", sid, getSessionStats(sessions, sid, now))
GetSessionHistory(sid) == Read("getSessionHistory", sid, getSessionHistory(sessions, sid, now))
GetSessionContext(sid) == Read("getSessionContext", sid, getSessionContext(sessions, sid, now))

ExpiryNext ==
    \/ CreateSession
    \/ CleanupExpiredSessions
    \/ \E d \in TickInputs : Tick(d)
    \/ \E sid \in SessionIdInputs :
        \/ GetSession(sid)
        \/ GetSessionImages(sid)
        \/ GetActiveImages(sid)
        \/ GetSessionStats(sid)
        \/ GetSessionHistory(sid)
        \/ GetSessionContext(sid)
        \/ /\ ImagesAdded < MaxAddImage - 1
           /\ AddImage(sid, Image("A", "user_upload", now, TextSunset))
        \/ /\ sid \in DOMAIN sessions => sessions[sid].metadata.totalMessages < MaxTurns - 2
           /\ AddConversationTurn(sid, Turn(1, "chat"))

SpecExpiry == StoreInit /\ [][ExpiryNext /\ UNCHANGED <<pollVars, dispatchVars, classifyVars, sweepVars, asyncVars>>]_vars

ReadOps ==
    { "getSession", "getSessionImages", "getActiveImages", "getSessionStats",
      "getSessionHistory", "getSessionContext" }

\* What each read returns for a session that does not exist.
AbsentValue(op) ==
    CASE op = "getSession" -> Null
      [] op = "getSessionImages" -> <<>>
      [] op = "getActiveImages" -> <<>>
      [] op = "getSessionStats" -> [threw |-> "not found"]
      [] op = "getSessionHistory" -> <<>>
      [] op = "getSessionContext" -> [found |-> FALSE]

\* This step is a call (no clock advance) on a stored session past the timeout.
CalledOnExpired ==
    /\ now' = now
    /\ lastResult'.sessionId \in DOMAIN sessions
    /\ now - sessions[lastResult'.sessionId].lastActivity > SESSION_TIMEOUT

\* C10: getSession on a session whose lastActivity is older than the timeout
\* returns not-found and removes the session, with no sweep needed; every
\* read built on it answers as for a session that does not exist.
C10_LazyExpiry ==
    [][ (lastResult'.op \in ReadOps /\ CalledOnExpired)
        => /\ ~lastResult'.ok
           /\ lastResult'.value = AbsentValue(lastResult'.op)
           /\ lastResult'.sessionId \notin DOMAIN sessions' ]_vars

\* C10 witness: past the timeout, a read has just answered not-found for a
\* session this store created, and the session is gone from the store.
C10_Witness ==
    /\ lastResult.op \in ReadOps \ {"getSession"}
    /\ ~lastResult.ok
    /\ lastResult.sessionId < nextSessionId
    /\ lastResult.sessionId \notin DOMAIN sessions
    /\ now > SESSION_TIMEOUT

(***************************************************************************)
(* The sweep's timer and destroy (SpecSweep)                               *)
(***************************************************************************)
\* destroy() that forgets the handle without clearing the timer.
destroyLeavesTimer(interval) == interval

\* destroy(): clearInterval on an armed timer, and the handle set to null.
destroy(interval) == IF interval # Null THEN Null ELSE interval

Destroy ==
    /\ cleanupInterval' = destroy(cleanupInterval)
    /\ lastResult' = Returned("destroy", 0, Null)
    /\ UNCHANGED <<sessions, nextSessionId, now>>

\* The timer of the constructor fires: the sweep runs.
SweepTimerFires ==
    /\ cleanupInterval # Null
    /\ sessions' = cleanupExpiredSessions(sessions, now)
    /\ lastResult' = Returned("setInterval", 0, Null)
    /\ UNCHANGED <<nextSessionId, now, cleanupInterval>>

SweepNext ==
    \/ Destroy
    \/ SweepTimerFires
    \/ CreateSession /\ UNCHANGED cleanupInterval
    \/ Tick(SESSION_TIMEOUT + 1) /\ UNCHANGED cleanupInterval
    \/ \E sid \in SessionIdInputs :
          \/ GetSession(sid) /\ UNCHANGED cleanupInterval
          \/ /\ ImagesAdded < MaxAddImage - 1
             /\ AddImage(sid, Image("A", "user_upload", now, TextSunset))
             /\ UNCHANGED cleanupInterval

SpecSweep ==
    StoreInit /\ [][SweepNext /\ UNCHANGED <<pollVars, dispatchVars, classifyVars, asyncVars>>]_vars

\* C26: destroy() stops the sweep for good and can be repeated: it never
\* raises, the timer is cleared when it returns, a cleared timer stays cleared
\* and never fires (a session leaves the store only through a call that
\* names it), and a destroy() on a cleared timer changes nothing.
C26_DestroyStopsTheSweep ==
    [][ /\ lastResult'.op = "destroy" =>
              /\ lastResult'.ok
              /\ cleanupInterval' = Null
              /\ sessions' = sessions
        /\ cleanupInterval = Null =>
              /\ cleanupInterval' = Null
              /\ lastResult'.op # "setInterval"
              /\ \A sid \in DOMAIN sessions :
                    sid \in DOMAIN sessions' \/ lastResult'.sessionId = sid ]_vars

\* C26 witness: after destroy(), a session has timed out and is still in the
\* store: no sweep has removed it.
C26_Witness ==
    /\ cleanupInterval = Null
    /\ lastResult.op = "destroy"
    /\ \E sid \in DOMAIN sessions : now - sessions[sid].lastActivity > SESSION_TIMEOUT

(***************************************************************************)
(* Concurrent mutations of one session (SpecConcurrent). A mutating call   *)
(* runs getSession, gives up control at its await, and does the rest of    *)
(* its body in one piece when it is resumed.                               *)
(***************************************************************************)
\* The calls made on the session.
ConcurrentCalls ==
    { [op |-> "addConversationTurn", arg |-> Turn(1, "chat")],
      [op |-> "addConversationTurn", arg |-> Turn(2, "edit-image")],
      [op |-> "addImage", arg |-> Image("A", "user_upload", 0, TextSunset)],
      [op |-> "addImage", arg |-> Image("B", "flux_generation", 0, TextCat)],
      [op |-> "setActiveImages", arg |-> <<"B">>] }

\* The body of a mutating call after its await, on the session s.
applyCall(s, call, t) ==
    CASE call.op = "addConversationTurn" -> addConversationTurnTo(s, call.arg, t)
      [] call.op = "addImage" -> addImageTo(s, call.arg, t)
      [] call.op = "setActiveImages" -> setActiveImagesTo(s, call.arg, t)

\* A call that writes back the session as it was when getSession returned it.
resumeOnCopy(ss, sid, call, t) ==
    [ss EXCEPT ![sid] = applyCall(call.seen, call, t)]

\* `session` is the object of the map, not a copy: the resumed call works on
\* the fields as they are now. On an object that has left the map meanwhile
\* the store does not change.
resume(ss, sid, call, t) ==
    IF sid \in DOMAIN ss THEN [ss EXCEPT ![sid] = applyCall(@, call, t)] ELSE ss

\* A call starts: getSession runs, and the call waits at its await.
BeginCall(sid, call) ==
    /\ Len(storeCalls.awaiting) + Len(storeCalls.returned) < MaxStoreCalls
    /\ getSessionFound(sessions, sid, now)
    /\ storeCalls' = [storeCalls EXCEPT
                         !.awaiting = Append(@, [op |-> call.op, arg |-> call.arg,
                                                 sessionId |-> sid, seen |-> sessions[sid]])]
    /\ UNCHANGED <<sessions, nextSessionId, now, lastResult>>

\* The i-th waiting call is resumed and returns.
ResumeCall(i) ==
    LET call == storeCalls.awaiting[i]
    IN /\ sessions' = resume(sessions, call.sessionId, call, now)
       /\ lastResult' = Returned(call.op, call.sessionId, Null)
       /\ storeCalls' = [awaiting |-> SubSeq(storeCalls.awaiting, 1, i - 1)
                                        \o SubSeq(storeCalls.awaiting, i + 1,
                                                  Len(storeCalls.awaiting)),
                         returned |-> Append(storeCalls.returned,
                                             [op |-> call.op, arg |-> call.arg])]
       /\ UNCHANGED <<nextSessionId, now>>

ConcurrentInit ==
    /\ PollIdle
    /\ ClassifyIdle
    /\ DispatchIdle
    /\ sessions = [sid \in {1} |-> NewSession(1, 0)]
    /\ nextSessionId = 2
    /\ now = 0
    /\ lastResult = Returned("createSession", 1, Null)

ConcurrentNext ==
    \/ \E call \in ConcurrentCalls : BeginCall(1, call)
    \/ \E i \in 1..Len(storeCalls.awaiting) : ResumeCall(i)

SpecConcurrent ==
    ConcurrentInit
    /\ [][ConcurrentNext /\ UNCHANGED <<pollVars, dispatchVars, classifyVars, sweepVars>>]_vars

\* The session after the calls of a sequence, one after the other.
RECURSIVE InSequence(_, _)
InSequence(s, seq) ==
    IF seq = <<>> THEN s
    ELSE applyCall(InSequence(s, SubSeq(seq, 1, Len(seq) - 1)), seq[Len(seq)], 0)

\* C27: concurrent addConversationTurn, addImage and setActiveImages calls
\* on one live session are atomic with respect to each other: whatever the
\* interleaving, once the calls have returned the session is as if they had
\* run one after the other, in the order in which they returned (no history
\* entry, counter or active id is lost).
C27_MutationsAreAtomic ==
    storeCalls.awaiting = <<>> =>
        sessions[1] = InSequence(NewSession(1, 0), storeCalls.returned)

\* C27 witness: three calls were under way together; the last to start was
\* the first to return.
C27_Witness ==
    /\ storeCalls.awaiting = <<>>
    /\ Len(storeCalls.returned) = 3
    /\ storeCalls.returned[1].op = "setActiveImages"
    /\ storeCalls.returned[2].op = "addImage"
    /\ storeCalls.returned[3].op = "addConversationTurn"
    /\ sessions[1].currentContext.activeImages = <<"B", "A">>
    /\ sessions[1].metadata.totalMessages = 1

\* The mutating calls under a moving clock (SpecMutate).
MutateNext ==
    \/ CreateSession
    \/ Tick(SESSION_TIMEOUT + 1)
    \/ \E sid \in SessionIdInputs :
        \/ /\ ImagesAdded < MaxAddImage - 1
           /\ AddImage(sid, Image("A", "user_upload", now, TextSunset))
        \/ /\ sid \in DOMAIN sessions => sessions[sid].metadata.totalMessages < MaxTurns - 2
           /\ AddConversationTurn(sid, Turn(1, "chat"))
        \/ SetActiveImages(sid, <<"ghost">>)
        \/ \E updates \in UpdateInputs : UpdateSession(sid, updates)

SpecMutate == StoreInit /\ [][MutateNext /\ UNCHANGED <<pollVars, dispatchVars, classifyVars, sweepVars, asyncVars>>]_vars

\* The calls that change a session.
MutatingOps == {"addConversationTurn", "addImage", "setActiveImages", "updateSession"}

\* This step is a call (no clock advance) on a session id that is not stored,
\* or is stored and past the timeout.
CalledOnAbsentOrExpired ==
    /\ now' = now
    /\ ~getSessionFound(sessions, lastResult'.sessionId, now)

\* C11: a mutating call (addConversationTurn, addImage, setActiveImages,
\* updateSession) on a session id that is absent or expired fails with the
\* session-not-found error, does not create the session, and leaves every
\* other session as it was.
C11_MutatingCallOnAbsentSessionFails ==
    [][ (lastResult'.op \in MutatingOps /\ CalledOnAbsentOrExpired)
        => /\ ~lastResult'.ok
           /\ lastResult'.sessionId \notin DOMAIN sessions'
           /\ \A k \in DOMAIN sessions \ {lastResult'.sessionId} :
                 k \in DOMAIN sessions' /\ sessions'[k] = sessions[k] ]_vars

\* C11 witness: updateSession on an id that was never created has failed,
\* beside a stored session that holds an image.
C11_Witness ==
    /\ lastResult = NotFound("updateSession", MaxSessions + 1)
    /\ \E k \in DOMAIN sessions :
          k # MaxSessions + 1 /\ sessions[k].metadata.totalImagesUploaded > 0

(***************************************************************************)
(* FluxApiService.pollForCompletion (SpecPoll)                             *)
(***************************************************************************)
\* What one status query can bring: a status, with the remote's error message
\* when it reports a failure, or a raised error (network failure).
Answer(status, message) == [status |-> status, message |-> message]

Answers ==
    {Answer(st, Null) : st \in {"pending", "processing", "completed", "Ready", "raise"}}
    \cup {Answer(st, m) : st \in {"failed", "Error"}, m \in {Null, "quota exceeded"}}

\* The answer to the i-th status query; a job still runs past the script.
RemoteAnswer(i) == IF i <= Len(remote) THEN remote[i] ELSE Answer("processing", Null)

Outcome(kind, message, n) == [kind |-> kind, message |-> message, attempts |-> n]

\* The error the try block throws on the answer, if any.
Thrown(answer) ==
    IF answer.status = "raise" THEN Outcome("network error", Null, 0)
    ELSE Outcome("failed",
                 IF answer.message = Null THEN "Unknown error" ELSE answer.message, 0)

\* The loop condition off by one (<= for <).
loopContinuesOffByOne(n, max) == n <= max

\* while (attempts < maxAttempts)
loopContinues(n, max) == n < max

\* The loop body with a catch block that never retries.
pollIterationNeverRetries(n, max, answer) ==
    IF answer.status \in {"Ready", "completed"}
    THEN [pc |-> "done", attempts |-> n, outcome |-> Outcome("completed", Null, 0)]
    ELSE IF answer.status \in {"Error", "failed", "raise"}
    THEN [pc |-> "done", attempts |-> n, outcome |-> Thrown(answer)]
    ELSE [pc |-> "loop", attempts |-> n + 1, outcome |-> NoOutcome]

\* The loop body with a catch block that always retries.
pollIterationAlwaysRetries(n, max, answer) ==
    IF answer.status \in {"Ready", "completed"}
    THEN [pc |-> "done", attempts |-> n, outcome |-> Outcome("completed", Null, 0)]
    ELSE [pc |-> "loop", attempts |-> n + 1, outcome |-> NoOutcome]

\* One pass of the loop body on the query's answer: the next pc, attempts and outcome.
pollIteration(n, max, answer) ==
    IF answer.status \in {"Ready", "completed"}
    THEN [pc |-> "done", attempts |-> n, outcome |-> Outcome("completed", Null, 0)]
    ELSE IF answer.status \in {"Error", "failed", "raise"}
    THEN \* thrown inside the try block, so the catch block decides
         IF n >= max - 1
         THEN [pc |-> "done", attempts |-> n, outcome |-> Thrown(answer)]
         ELSE [pc |-> "loop", attempts |-> n + 1, outcome |-> NoOutcome]
    ELSE [pc |-> "loop", attempts |-> n + 1, outcome |-> NoOutcome]

\* throw new Error(`Image generation timed out after ${maxAttempts} attempts`)
pollExhausted(max) == Outcome("timed_out", Null, max)

\* The two operations of FluxApiService that submit a job.
Operations == {"generateImage", "editImage"}

\* What the POST brings: a job id to poll, a result at once, or a raised error.
SubmitAnswers == {"id", "direct", "raise"}

\* Where the operation goes on the POST's answer.
submitted(a) ==
    CASE a = "id" -> "loop"
      [] a = "direct" -> "returned"
      [] a = "raise" -> "raised"

PollInit ==
    /\ DispatchIdle
    /\ ClassifyIdle
    /\ sessions = <<>>
    /\ nextSessionId = 1
    /\ now = 0
    /\ lastResult = Returned("constructor", 0, Null)
    /\ remote \in [1..MaxPolls -> Answers]
    /\ maxAttempts \in 0..MaxPolls
    /\ attempts = 0
    /\ queries = 0
    /\ operation \in Operations
    /\ pollPc = "submit"
    /\ pollOutcome = NoOutcome

\* One pass of the loop: sleep, query the status, handle the answer.
PollAttempt ==
    /\ pollPc = "loop"
    /\ loopContinues(attempts, maxAttempts)
    /\ LET next == pollIteration(attempts, maxAttempts, RemoteAnswer(queries + 1))
       IN /\ pollPc' = next.pc
          /\ attempts' = next.attempts
          /\ pollOutcome' = next.outcome
    /\ queries' = queries + 1
    /\ UNCHANGED <<remote, maxAttempts, operation>>

\* The loop condition fails: the call throws the timeout error.
PollExhausted ==
    /\ pollPc = "loop"
    /\ ~loopContinues(attempts, maxAttempts)
    /\ pollPc' = "done"
    /\ pollOutcome' = pollExhausted(maxAttempts)
    /\ UNCHANGED <<remote, maxAttempts, attempts, queries, operation>>

\* The POST of generateImage / editImage.
Submit(a) ==
    /\ pollPc = "submit"
    /\ pollPc' = submitted(a)
    /\ UNCHANGED <<remote, maxAttempts, attempts, queries, operation, pollOutcome>>

PollNext ==
    \/ \E a \in SubmitAnswers : Submit(a)
    \/ PollAttempt
    \/ PollExhausted

SpecPoll == PollInit /\ [][PollNext /\ UNCHANGED <<storeVars, dispatchVars, classifyVars, sweepVars, asyncVars>>]_vars

\* The answers the call has seen so far.
Seen == {RemoteAnswer(i) : i \in 1..queries}

PollDone == pollPc = "done"

\* C5: a status query that returns failed (or Error) ends the loop at once
\* with a failure: it is the last query of the call, and the outcome is a
\* failure, never completed.
C5_FailedStatusIsFinal ==
    \A i \in 1..queries :
        RemoteAnswer(i).status \in {"failed", "Error"}
        => /\ i = queries
           /\ PollDone
           /\ pollOutcome.kind = "failed"

\* The remote stub of C6: processing for the first n queries, completed at n + 1.
IsProcessingStub(n) ==
    /\ \A i \in 1..Len(remote) : i <= n => remote[i].status = "processing"
    /\ n < Len(remote) => remote[n + 1].status = "completed"

\* C6: against the stub that answers processing n times and then completed,
\* the call returns completed after exactly n + 1 status queries when
\* maxAttempts > n, and fails as timed out when maxAttempts <= n.
C6_StubCompletesWithinBudget ==
    PollDone =>
        \A n \in 0..Len(remote) :
            IsProcessingStub(n) =>
                IF maxAttempts > n
                THEN pollOutcome.kind = "completed" /\ queries = n + 1
                ELSE pollOutcome = Outcome("timed_out", Null, maxAttempts)

\* C6 witness: the stub with n = 2 has completed on the third query.
C6_Witness ==
    /\ PollDone
    /\ IsProcessingStub(2)
    /\ maxAttempts > 2
    /\ queries = 3
    /\ pollOutcome.kind = "completed"

\* The whole budget was used and no query brought a terminal status.
BudgetUsedWithoutTerminalStatus ==
    /\ PollDone
    /\ queries = maxAttempts
    /\ \A a \in Seen : a.status \in {"pending", "processing", "raise"}

\* C7 as claimed: the budget used without a terminal status, whether the
\* attempts saw pending/processing or raised, the outcome is the timeout that
\* names maxAttempts.
C7_ExhaustedBudgetTimesOut ==
    BudgetUsedWithoutTerminalStatus => pollOutcome = Outcome("timed_out", Null, maxAttempts)

\* C7 amended: the budget used without a terminal status, the outcome is the
\* timeout that names maxAttempts unless the last query of the budget raised,
\* and then it is that raised error.
C7_ExhaustedBudgetTimesOutUnlessLastRaised ==
    BudgetUsedWithoutTerminalStatus =>
        IF maxAttempts > 0 /\ RemoteAnswer(maxAttempts).status = "raise"
        THEN pollOutcome = Outcome("network error", Null, 0)
        ELSE pollOutcome = Outcome("timed_out", Null, maxAttempts)

\* C7 witness: a budget of three spent on a raised error, a pending and a
\* processing answer has ended in the timeout.
C7_Witness ==
    /\ PollDone
    /\ maxAttempts = 3 /\ queries = 3
    /\ RemoteAnswer(1).status = "raise"
    /\ RemoteAnswer(2).status = "pending"
    /\ RemoteAnswer(3).status = "processing"
    /\ pollOutcome = Outcome("timed_out", Null, 3)

(***************************************************************************)
(* FluxApiService.generateImage and editImage around the polling loop      *)
(***************************************************************************)
\* The message of the error the POST raises.
SubmitError == "connect ECONNREFUSED"

\* The message of the error pollForCompletion threw, as a sequence of parts.
messageOf(outcome) ==
    CASE outcome.kind = "failed" -> <<"Image generation failed: ", outcome.message>>
      [] outcome.kind = "timed_out" ->
            <<"Image generation timed out after ", ToString(outcome.attempts), " attempts">>
      [] outcome.kind = "network error" -> <<"network error">>

\* What an operation hands to its caller: a result, or a thrown error.
Result(success, message) == [threw |-> FALSE, success |-> success, message |-> message]
Threw(message) == [threw |-> TRUE, success |-> FALSE, message |-> message]

\* The catch blocks' message for a caught value that is not an Error.
failureMessageGeneric(prefix, message) == <<prefix>>

\* The catch blocks' message: `${prefix}${error.message}`.
failureMessage(prefix, message) == <<prefix>> \o message

\* generateImage: a caught error is wrapped and thrown again.
generateImageResult(pc, outcome) ==
    CASE pc = "raised" -> Threw(failureMessage("Image generation failed: ", <<SubmitError>>))
      [] pc = "returned" -> Result(TRUE, <<>>)
      [] pc = "done" ->
            IF outcome.kind = "completed" THEN Result(TRUE, <<>>)
            ELSE Threw(failureMessage("Image generation failed: ", messageOf(outcome)))

\* editImage: a caught error is returned as { success: false, error }.
editImageResult(pc, outcome) ==
    CASE pc = "raised" -> Result(FALSE, failureMessage("Image editing failed: ", <<SubmitError>>))
      [] pc = "returned" -> Result(TRUE, <<>>)
      [] pc = "done" ->
            IF outcome.kind = "completed" THEN Result(TRUE, <<>>)
            ELSE Result(FALSE, failureMessage("Image editing failed: ", messageOf(outcome)))

\* The operation is over.
OperationDone == pollPc \in {"raised", "returned", "done"}

\* What the operation under way has handed to its caller.
surfaced ==
    IF operation = "generateImage" THEN generateImageResult(pollPc, pollOutcome)
    ELSE editImageResult(pollPc, pollOutcome)

\* The message the remote supplied with its last answer, "Unknown error" if none.
RemoteMessage ==
    IF RemoteAnswer(queries).message = Null THEN "Unknown error"
    ELSE RemoteAnswer(queries).message

\* C16: when the remote reports a failed job, the failure message generateImage
\* surfaces is exactly the remote-supplied message, "Unknown error" if the
\* remote supplied none.
C16_SurfacesRemoteMessageExactly ==
    (PollDone /\ operation = "generateImage" /\ pollOutcome.kind = "failed")
        => surfaced.message = <<RemoteMessage>>

\* The first status query that brings completed is query j.
FirstCompletedAt(j) ==
    /\ RemoteAnswer(j).status \in {"completed", "Ready"}
    /\ \A k \in 1..(j - 1) : RemoteAnswer(k).status \notin {"completed", "Ready"}

\* C17: a status query that raises on an attempt that is not the last of the
\* budget does not end the call: another query follows, and a completed status
\* on a later attempt within the budget still yields a completed result.
C17_TransientErrorIsRetried ==
    PollDone =>
        \A i \in 1..queries :
            (RemoteAnswer(i).status = "raise" /\ i < maxAttempts)
            => /\ queries > i
               /\ \A j \in (i + 1)..maxAttempts :
                     FirstCompletedAt(j) => pollOutcome.kind = "completed" /\ queries = j

\* C17 witness: the first query raised, the second brought completed.
C17_Witness ==
    /\ PollDone
    /\ maxAttempts >= 2
    /\ RemoteAnswer(1).status = "raise"
    /\ RemoteAnswer(2).status = "completed"
    /\ queries = 2
    /\ pollOutcome.kind = "completed"

\* The message holds the text as one of its parts.
Carries(message, text) == \E i \in 1..Len(message) : message[i] = text

\* C18: when the POST of generateImage or editImage raises, the operation
\* ends in a failure that carries the underlying error message, and no status
\* query is made for it.
C18_SubmitFailureIsNotPolled ==
    pollPc = "raised"
        => /\ queries = 0
           /\ attempts = 0
           /\ ~surfaced.success
           /\ Carries(surfaced.message, SubmitError)

\* C18 witness: the POST of editImage has raised.
C18_Witness ==
    /\ pollPc = "raised"
    /\ operation = "editImage"
    /\ surfaced = Result(FALSE, <<"Image editing failed: ", SubmitError>>)

\* Each status query returns or raises, so the loop keeps taking steps (every
\* step of the operation changes pollPc or queries).
SpecPollFair ==
    SpecPoll /\ WF_<<pollPc, queries>>(PollNext /\ UNCHANGED <<storeVars, dispatchVars, classifyVars, sweepVars, asyncVars>>)

\* C19: every call of pollForCompletion ends, as completed, failed or timed
\* out, after at most maxAttempts status queries, whatever the remote answers.
C19_PollTerminatesWithinBudget ==
    /\ [](queries <= maxAttempts)
    /\ (pollPc = "loop") ~>
          (PollDone /\ pollOutcome.kind \in {"completed", "failed", "network error", "timed_out"})

\* C19 witness: a call has ended after using its whole budget of MaxPolls queries.
C19_Witness ==
    /\ PollDone
    /\ maxAttempts = MaxPolls
    /\ queries = MaxPolls
    /\ pollOutcome.kind \in {"failed", "network error", "timed_out"}

(***************************************************************************)
(* ChatService.processMessage (SpecDispatch)                               *)
(***************************************************************************)
\* ChatGraph.addAssistantResponse: the history is cut to its last
\* CHAT_HISTORY_KEEP entries once it is longer than CHAT_HISTORY_LIMIT.
CHAT_HISTORY_LIMIT == 20
CHAT_HISTORY_KEEP == 16
\* ChatGraph.execute sends the last CHAT_CONTEXT_WINDOW entries to the LLM.
CHAT_CONTEXT_WINDOW == 10

\* processMessage without a sessionId.
NoSessionId == 0

TextMakeIt == <<"m", "a", "k", "e", " ", "i", "t">>

\* Messages: the empty one and "make it".
Messages == { <<>>, TextMakeIt }

\* !prompt || prompt.trim().length === 0
IsBlank(s) == \A i \in 1..Len(s) : s[i] = " "

\* What detectIntent resolves to; confidences are in percent.
IntentResult(intent, confidence) == [intent |-> intent, confidence |-> confidence]

\* The classifier's answers, and the fallback of detectIntent when the LLM fails.
IntentResults == {IntentResult(i, 95) : i \in IntentType} \cup {IntentResult("chat", 50)}

\* The remote image job of a handler: it completes or it fails.
Jobs == {"completed", "failed"}

\* crypto.randomUUID() for a generated image: fresh in its session.
GeneratedIds == <<"G1", "G2", "G3", "G4">>
GeneratedId(s) == GeneratedIds[s.metadata.totalImagesGenerated + 1]

\* The suggestions ImageEditingGraph.execute returns when it finds no target.
NoTargetSuggestions == <<"Upload an image to edit", "Generate an image first",
                         "Try: create an image and then edit it">>

\* generateFollowUpSuggestions / generateEditingSuggestions: three follow-ups.
FollowUpSuggestions == <<"variation", "another edit", "another image">>

\* What ImageEditingGraph.execute returns.
EditResult(success, suggestions) == [success |-> success, suggestions |-> suggestions]

\* ImageEditingService.editImage on the graph's result: a failure is returned
\* as { success: false, error }, a success with data.suggestions.
editImageResponse(result) ==
    IF result.success THEN result ELSE EditResult(FALSE, <<>>)

\* A call after its session is settled: intent chat, confidence 1.0. `turns`
\* counts the ConversationTurns the call has appended, `jobs` the requests it
\* has sent to the remote image API, `suggestions` are those in its response,
\* `context` is the conversation it has sent to the chat LLM, `detections`
\* counts its detectIntent calls.
Call(message, sid, skip) ==
    [ pc |-> "classify", message |-> message, sessionId |-> sid,
      skipIntentDetection |-> skip, detectedIntent |-> "chat", confidence |-> 100,
      target |-> Null, response |-> Null, turns |-> 0,
      suggestions |-> <<>>, jobs |-> 0, context |-> <<>>, detections |-> 0 ]

\* The state one call works on: the store, the chat history and the call.
PM(ss, ch, call) == [sessions |-> ss, chatHistory |-> ch, call |-> call]

ChatEntry(role, sid) == [role |-> role, sessionId |-> sid]

addAssistantResponse(ch, sid) ==
    LET pushed == Append(ch, ChatEntry("assistant", sid))
    IN IF Len(pushed) > CHAT_HISTORY_LIMIT THEN SliceLast(pushed, CHAT_HISTORY_KEEP) ELSE pushed

\* A tail of processMessage that puts the turn in front of the history.
respondInFront(st, response, t) ==
    LET call == st.call
        sid == call.sessionId
        ch == addAssistantResponse(st.chatHistory, sid)
    IN IF getSessionFound(st.sessions, sid, t)
       THEN PM([st.sessions EXCEPT ![sid] =
                    [@ EXCEPT !.conversationHistory =
                                  <<ConversationTurn(st.sessions[sid].metadata.totalMessages + 1,
                                                     call.detectedIntent, call.confidence)>> \o @,
                              !.metadata.totalMessages = @ + 1]],
               ch,
               [call EXCEPT !.pc = "done", !.response = response, !.turns = @ + 1])
       ELSE PM(getSessionStore(st.sessions, sid, t), ch,
               [call EXCEPT !.pc = "done", !.response = "fallback",
                            !.suggestions = <<>>])

\* A tail of processMessage that creates the session again when it is gone.
respondRecreates(st, response, t) ==
    LET call == st.call
        sid == call.sessionId
        ch == addAssistantResponse(st.chatHistory, sid)
        ss == IF getSessionFound(st.sessions, sid, t) THEN st.sessions
              ELSE [k \in DOMAIN st.sessions \cup {sid} |->
                       IF k = sid THEN NewSession(sid, t) ELSE st.sessions[k]]
    IN PM([ss EXCEPT ![sid] =
              addConversationTurnTo(
                  @, ConversationTurn(@.metadata.totalMessages + 1,
                                      call.detectedIntent, call.confidence), t)],
          ch,
          [call EXCEPT !.pc = "done", !.response = response, !.turns = @ + 1])

\* The tail of processMessage: the assistant response goes to the chat graph,
\* the turn to the session; a session that is gone makes addConversationTurn
\* throw, and the catch block answers with the fallback.
respond(st, response, t) ==
    LET call == st.call
        sid == call.sessionId
        ch == addAssistantResponse(st.chatHistory, sid)
    IN IF getSessionFound(st.sessions, sid, t)
       THEN PM([st.sessions EXCEPT ![sid] =
                    addConversationTurnTo(
                        @, ConversationTurn(@.metadata.totalMessages + 1,
                                            call.detectedIntent, call.confidence), t)],
               ch,
               [call EXCEPT !.pc = "done", !.response = response, !.turns = @ + 1])
       ELSE PM(getSessionStore(st.sessions, sid, t), ch,
               [call EXCEPT !.pc = "done", !.response = "fallback",
                            !.suggestions = <<>>])

\* ImageGenerationService.generateImage up to the remote job.
routeGenerate(st, t) ==
    LET sid == st.call.sessionId
    IN IF ~getSessionFound(st.sessions, sid, t)
       THEN respond([st EXCEPT !.sessions = getSessionStore(@, sid, t)], "failure", t)
       ELSE IF IsBlank(st.call.message)
       THEN respond(st, "failure", t)
       ELSE [st EXCEPT !.call.pc = "generating", !.call.jobs = @ + 1]

\* An edit handler that sends the request whether it has a target or not.
routeEditSubmitsAnyway(st, t) ==
    [st EXCEPT !.call.pc = "editing", !.call.jobs = @ + 1]

\* ImageEditingGraph.execute up to the remote job: steps 1 and 2.
routeEdit(st, t) ==
    LET sid == st.call.sessionId
        ss == getSessionStore(st.sessions, sid, t)
        target == determineTargetImage(st.sessions, sid, st.call.message, t)
    IN IF target = Null
       THEN respond([st EXCEPT
                        !.sessions = ss,
                        !.call.suggestions =
                            editImageResponse(EditResult(FALSE, NoTargetSuggestions)).suggestions],
                    "failure", t)
       ELSE IF ~(MapHas(ss[sid].uploadedImages, target) \/ MapHas(ss[sid].generatedImages, target))
       THEN respond(st, "failure", t)
       ELSE [st EXCEPT !.call.pc = "editing", !.call.target = target, !.call.jobs = @ + 1]

\* ChatGraph.execute up to the remote LLM: the user message joins the history.
routeChat(st) ==
    LET pushed == Append(st.chatHistory, ChatEntry("user", st.call.sessionId))
    IN [st EXCEPT !.chatHistory = pushed,
                  !.call.context = SliceLast(pushed, CHAT_CONTEXT_WINDOW),
                  !.call.pc = "chatting"]

\* The routing of processMessage on the detected intent.
route(st, t) ==
    IF st.call.detectedIntent = "generate-image" /\ ~st.call.skipIntentDetection
    THEN routeGenerate(st, t)
    ELSE IF st.call.detectedIntent = "edit-image" /\ ~st.call.skipIntentDetection
    THEN routeEdit(st, t)
    ELSE routeChat(st)

\* A generate handler that stores an image even when the job has failed.
generatedStoresOnFailure(st, job, t) ==
    LET sid == st.call.sessionId
    IN IF ~getSessionFound(st.sessions, sid, t)
       THEN respond([st EXCEPT !.sessions = getSessionStore(@, sid, t)], "failure", t)
       ELSE LET s0 == st.sessions[sid]
                s1 == addImageTo(s0, Image(GeneratedId(s0), "flux_generation", t,
                                           st.call.message), t)
                s2 == addConversationTurnTo(
                          s1, ConversationTurn(s1.metadata.totalMessages + 1,
                                               "generate-image", 100), t)
            IN IF job = "failed"
               THEN respond([st EXCEPT !.sessions[sid] = s1], "failure", t)
               ELSE respond([st EXCEPT !.sessions[sid] = s2, !.call.turns = @ + 1,
                                       !.call.suggestions = FollowUpSuggestions], "image", t)

\* The generate handler once the remote job is over: ImageGenerationGraph.execute
\* stores the image, ImageGenerationService.generateImage appends a turn of its
\* own, and processMessage goes on to its tail.
generated(st, job, t) ==
    LET sid == st.call.sessionId
    IN IF job = "failed"
       THEN respond(st, "failure", t)
       ELSE IF ~getSessionFound(st.sessions, sid, t)
       THEN respond([st EXCEPT !.sessions = getSessionStore(@, sid, t)], "failure", t)
       ELSE LET s0 == st.sessions[sid]
                s1 == addImageTo(s0, Image(GeneratedId(s0), "flux_generation", t,
                                           st.call.message), t)
                s2 == addConversationTurnTo(
                          s1, ConversationTurn(s1.metadata.totalMessages + 1,
                                               "generate-image", 100), t)
            IN respond([st EXCEPT !.sessions[sid] = s2, !.call.turns = @ + 1,
                                  !.call.suggestions = FollowUpSuggestions], "image", t)

\* The edit handler once the remote job is over: steps 5 and 6, then the tail.
edited(st, job, t) ==
    LET sid == st.call.sessionId
    IN IF job = "failed"
       THEN respond(st, "failure", t)
       ELSE IF ~getSessionFound(st.sessions, sid, t)
       THEN respond([st EXCEPT !.sessions = getSessionStore(@, sid, t)], "failure", t)
       ELSE LET s0 == st.sessions[sid]
                s1 == addImageTo(s0, Image(GeneratedId(s0), "flux_generation", t,
                                           st.call.message), t)
            IN respond([st EXCEPT
                           !.sessions[sid] = s1,
                           !.call.suggestions =
                               editImageResponse(EditResult(TRUE, FollowUpSuggestions)).suggestions],
                       "image", t)

\* createSession on a store.
createSessionIn(ss, sid, t) ==
    [k \in DOMAIN ss \cup {sid} |-> IF k = sid THEN NewSession(sid, t) ELSE ss[k]]

\* The call threw to its caller: initialize() runs before the try block.
threw(message, sid, skip) ==
    [Call(message, sid, skip) EXCEPT !.pc = "done", !.response = "threw"]

\* The catch block of processMessage: the fallback response, nothing recorded.
fallback(st) ==
    [st EXCEPT !.call.pc = "done", !.call.response = "fallback", !.call.suggestions = <<>>]

\* processMessage starts on a service whose initialize() fails: it rethrows.
PMStartThrows(message, sid, skip) ==
    /\ Len(calls) < MaxCalls
    /\ ~isInitialized
    /\ calls' = Append(calls, threw(message, sid, skip))
    /\ UNCHANGED <<sessions, nextSessionId, now, lastResult, chatHistory, isInitialized>>

\* processMessage that calls detectIntent whatever skipIntentDetection is.
PMStartAlwaysDetects(message, sid, skip) ==
    /\ Len(calls) < MaxCalls
    /\ isInitialized' = TRUE
    /\ LET found == sid # NoSessionId /\ getSessionFound(sessions, sid, now)
           looked == IF sid = NoSessionId THEN sessions
                     ELSE getSessionStore(sessions, sid, now)
           final == IF found THEN sid ELSE nextSessionId
           ss == IF found THEN looked ELSE createSessionIn(looked, nextSessionId, now)
       IN /\ sessions' = ss
          /\ chatHistory' = chatHistory
          /\ calls' = Append(calls, Call(message, final, skip))
          /\ nextSessionId' = IF found THEN nextSessionId ELSE nextSessionId + 1
    /\ UNCHANGED <<now, lastResult>>

\* processMessage starts (the service is initialized, or initialize() succeeds):
\* the session is found or created; with skipIntentDetection the call goes
\* straight to the chat graph.
PMBegin(message, sid, skip) ==
    /\ isInitialized' = TRUE
    /\ LET found == sid # NoSessionId /\ getSessionFound(sessions, sid, now)
           looked == IF sid = NoSessionId THEN sessions
                     ELSE getSessionStore(sessions, sid, now)
           final == IF found THEN sid ELSE nextSessionId
           ss == IF found THEN looked ELSE createSessionIn(looked, nextSessionId, now)
           st0 == PM(ss, chatHistory, Call(message, final, skip))
           st == IF skip THEN route(st0, now) ELSE st0
       IN /\ sessions' = st.sessions
          /\ chatHistory' = st.chatHistory
          /\ calls' = Append(calls, st.call)
          /\ nextSessionId' = IF found THEN nextSessionId ELSE nextSessionId + 1
    /\ UNCHANGED <<now, lastResult>>

PMStart(message, sid, skip) ==
    /\ Len(calls) < MaxCalls
    /\ PMBegin(message, sid, skip)

\* A step of call c that leaves the state st.
Continue(c, st) ==
    /\ sessions' = st.sessions
    /\ chatHistory' = st.chatHistory
    /\ calls' = [calls EXCEPT ![c] = st.call]
    /\ UNCHANGED <<nextSessionId, now, lastResult, isInitialized>>

\* detectIntent resolves and the call is routed.
PMDetectIntent(c, r) ==
    /\ calls[c].pc = "classify"
    /\ Continue(c, route(PM(sessions, chatHistory,
                            [calls[c] EXCEPT !.detectedIntent = r.intent,
                                             !.confidence = r.confidence,
                                             !.detections = @ + 1]), now))

\* The generation job is over.
PMGenerated(c, job) ==
    /\ calls[c].pc = "generating"
    /\ Continue(c, generated(PM(sessions, chatHistory, calls[c]), job, now))

\* The editing job is over.
PMEdited(c, job) ==
    /\ calls[c].pc = "editing"
    /\ Continue(c, edited(PM(sessions, chatHistory, calls[c]), job, now))

\* The chat graph's stream is over, or it raised.
PMChatted(c, ok) ==
    /\ calls[c].pc = "chatting"
    /\ Continue(c, IF ok THEN respond(PM(sessions, chatHistory, calls[c]), "chat", now)
                   ELSE fallback(PM(sessions, chatHistory, calls[c])))

\* An upload through the image-upload route.
Upload(sid) ==
    /\ ImagesAdded < MaxAddImage
    /\ AddImage(sid, Image("A", "user_upload", now, TextSunset))

DispatchNext ==
    \/ \E m \in Messages, sid \in {NoSessionId} \cup SessionIdInputs, skip \in BOOLEAN :
          \/ PMStart(m, sid, skip)
          \/ PMStartThrows(m, sid, skip)
    \/ \E c \in DOMAIN calls :
          \/ \E r \in IntentResults : PMDetectIntent(c, r)
          \/ \E job \in Jobs : PMGenerated(c, job)
          \/ \E job \in Jobs : PMEdited(c, job)
          \/ \E ok \in BOOLEAN : PMChatted(c, ok)
    \/ \E sid \in SessionIdInputs :
          \/ DeleteSession(sid) /\ UNCHANGED dispatchVars
          \/ Upload(sid) /\ UNCHANGED dispatchVars

SpecDispatch == StoreInit /\ [][DispatchNext /\ UNCHANGED <<pollVars, classifyVars, sweepVars, asyncVars>>]_vars

\* C8: every completed call of processMessage has appended exactly one
\* ConversationTurn to its session's history, whatever its branch (chat,
\* generate-image success or failure, edit-image success or failure). Stated
\* for the calls that did not end in the catch block's fallback.
C8_ExactlyOneTurnPerCall ==
    \A c \in DOMAIN calls :
        calls[c].pc = "done" /\ calls[c].response # "fallback" => calls[c].turns = 1

\* C12: an edit-image turn on a session that holds no image answers with a
\* failure that carries at least one suggestion, sends no request to the remote
\* image API, and adds no image to the session.
C12_NoTargetFailsWithSuggestions ==
    \A c \in DOMAIN calls :
        ( /\ calls[c].pc = "done"
          /\ calls[c].detectedIntent = "edit-image"
          /\ ~calls[c].skipIntentDetection
          /\ calls[c].response = "failure"
          /\ calls[c].target = Null )
        => /\ Len(calls[c].suggestions) >= 1
           /\ calls[c].jobs = 0
           /\ calls[c].sessionId \in DOMAIN sessions
                 => sessions[calls[c].sessionId].metadata.totalImagesGenerated = 0

(***************************************************************************)
(* The chat graph after another session's traffic (SpecChat)               *)
(***************************************************************************)
\* The state processMessage(message, undefined, true) leaves on the state
\* st of the store and the chat graph: a new session sid and one chat turn.
AfterDirectChat(ss, ch, sid, message, t) ==
    respond(route(PM(createSessionIn(ss, sid, t), ch, Call(message, sid, TRUE)), t),
            "chat", t)

\* Another session has chatted before the calls under observation, or not.
ChatInit ==
    /\ PollIdle
    /\ ClassifyIdle
    /\ calls = <<>>
    /\ now = 0
    /\ \/ /\ sessions = <<>>
          /\ chatHistory = <<>>
          /\ isInitialized = FALSE
          /\ nextSessionId = 1
          /\ lastResult = Returned("constructor", 0, Null)
       \/ LET st == AfterDirectChat(<<>>, <<>>, 1, TextMakeIt, 0)
          IN /\ sessions = st.sessions
             /\ chatHistory = st.chatHistory
             /\ isInitialized = TRUE
             /\ nextSessionId = 2
             /\ lastResult = Returned("createSession", 1, Null)

SpecChat == ChatInit /\ [][DispatchNext /\ UNCHANGED <<pollVars, classifyVars, sweepVars, asyncVars>>]_vars

\* C14: what a call sends to the chat LLM holds the messages of the call's
\* own session only, so the reply for session A cannot depend on what was
\* handled for another session B.
C14_ChatContextOfOwnSession ==
    \A c \in DOMAIN calls :
        \A i \in 1..Len(calls[c].context) :
            calls[c].context[i].sessionId = calls[c].sessionId

\* C15: processMessage always returns a response message and never throws to
\* its caller, whichever collaborator fails.
C15_NeverThrows ==
    \A c \in DOMAIN calls : calls[c].pc = "done" => calls[c].response # "threw"

(***************************************************************************)
(* IntentDetectionService: detectIntent, parseLLMResponse, validateIntent   *)
(* and extractParameters. A text is the sequence of its words; confidences  *)
(* are in percent.                                                          *)
(***************************************************************************)
\* The longest input text, in words.
MaxWords == 2

\* The words of the input texts.
Words == {"Draw", "cat", "edit"}

Texts == UNION { [1..n -> Words] : n \in 0..MaxWords }

\* toLowerCase on a word and toUpperCase on an intent string of the model.
lowerWord(w) == IF w = "Draw" THEN "draw" ELSE w

toUpperCase(w) ==
    CASE w = "edit image" -> "EDIT IMAGE"
      [] w = "banana" -> "BANANA"
      [] OTHER -> w

GenerateTriggerWords == {"generate", "create", "make", "draw", "image", "picture"}
EditTriggerWords == {"edit", "modify", "change", "adjust"}

\* cleanPrompt: the lower-cased input without the trigger words, or the input
\* itself when nothing is left. No text of Words holds one of the phrases
\* "image of", "the picture", ... that it removes as well.
cleanPrompt(input, triggerWords) ==
    LET lowered == [i \in DOMAIN input |-> lowerWord(input[i])]
        cleaned == SelectSeq(lowered, LAMBDA w : w \notin triggerWords)
    IN IF cleaned = <<>> THEN input ELSE cleaned

extractParameters(input, intent) ==
    CASE intent = "generate-image" ->
            [name |-> "prompt", value |-> cleanPrompt(input, GenerateTriggerWords)]
      [] intent = "edit-image" ->
            [name |-> "editInstructions", value |-> cleanPrompt(input, EditTriggerWords)]
      [] OTHER -> [name |-> "prompt", value |-> input]

validateIntent(intentString) ==
    LET upperIntent == toUpperCase(intentString)
    IN CASE upperIntent \in {"GENERATE_IMAGE", "GENERATE IMAGE"} -> "generate-image"
         [] upperIntent \in {"EDIT_IMAGE", "EDIT IMAGE"} -> "edit-image"
         [] OTHER -> "chat"

\* An IntentResult with its extracted parameter.
Detected(intent, confidence, input) ==
    [intent |-> intent, confidence |-> confidence,
     extractedParams |-> extractParameters(input, intent)]

\* The first {...} of an LLM text: none, one JSON.parse rejects, or an object.
NoJson == [kind |-> "none", intent |-> Null, confidence |-> 0]
MalformedJson == [kind |-> "malformed", intent |-> Null, confidence |-> 0]
Json(intent, confidence) == [kind |-> "object", intent |-> intent, confidence |-> confidence]

\* parsed.confidence of an object without that key.
Undefined == -1000

\* parsed.confidence of an object whose confidence is a text that is no
\* number, as in {"intent": "CHAT", "confidence": "high"}.
NonNumeric == -3000

\* Number.NaN
NaN == -2000

\* What the LLM graph does on a call: graph.start raises, it returns something
\* that is no stream, the stream raises, the stream ends without any content,
\* or it delivers a text. Of a text the model keeps its first {...} and which
\* of the labels GENERATE_IMAGE and EDIT_IMAGE its upper-cased form includes.
GraphAnswer(kind, json, mentions) == [kind |-> kind, json |-> json, mentions |-> mentions]

Content(json, mentions) == GraphAnswer("content", json, mentions)

LLMTexts ==
    { Content(Json("GENERATE_IMAGE", 95), {"GENERATE_IMAGE"}),
      Content(Json("edit image", 150), {"EDIT_IMAGE"}),
      Content(Json("banana", 95), {}),
      Content(Json("EDIT_IMAGE", Undefined), {"EDIT_IMAGE"}),
      Content(Json("CHAT", NonNumeric), {}),
      Content(MalformedJson, {}),
      Content(NoJson, {"GENERATE_IMAGE", "EDIT_IMAGE"}),
      Content(NoJson, {}) }

GraphFailures == {"start raises", "not iterable", "stream raises", "no content"}

LLMAnswers == {GraphAnswer(k, NoJson, {}) : k \in GraphFailures} \cup LLMTexts

\* Math.max(0, Math.min(1, confidence)), in percent: Math.min and Math.max
\* return NaN when an argument converts to NaN.
clamp(confidence) ==
    IF confidence = NonNumeric THEN NaN
    ELSE IF confidence < 0 THEN 0 ELSE Min(100, confidence)

parseLLMResponse(text, originalInput) ==
    IF /\ text.json.kind = "object"
       /\ text.json.intent # Null
       /\ text.json.confidence # Undefined
    THEN Detected(validateIntent(text.json.intent), clamp(text.json.confidence),
                  originalInput)
    ELSE IF "GENERATE_IMAGE" \in text.mentions
    THEN Detected("generate-image", 70, originalInput)
    ELSE IF "EDIT_IMAGE" \in text.mentions
    THEN Detected("edit-image", 70, originalInput)
    ELSE Detected("chat", 60, originalInput)

\* What a function produced: a value, or an exception.
Resolved(data) == [threw |-> FALSE, data |-> data]
Rejected(message) == [threw |-> TRUE, data |-> message]

\* The try block of detectIntent.
detectIntentTry(initialized, input, answer) ==
    IF ~initialized THEN Rejected("Service not initialized")
    ELSE IF answer.kind = "start raises" THEN Rejected("graph.start")
    ELSE IF answer.kind = "not iterable"
    THEN Rejected("Graph start() did not return an iterable stream")
    ELSE IF answer.kind = "stream raises" THEN Rejected("stream")
    ELSE IF answer.kind = "no content"
    THEN Rejected("No valid response received from LLM")
    ELSE Resolved(parseLLMResponse(answer, input))

\* The catch block of detectIntent.
detectIntentFallback(input) ==
    [intent |-> "chat", confidence |-> 50,
     extractedParams |-> [name |-> "prompt", value |-> input]]

detectIntentUncaught(initialized, input, answer) ==
    detectIntentTry(initialized, input, answer)

detectIntent(initialized, input, answer) ==
    LET tried == detectIntentTry(initialized, input, answer)
    IN IF tried.threw THEN Resolved(detectIntentFallback(input)) ELSE tried

\* IntentDetectionService.initialize builds the graph.
IntentInitialize ==
    /\ ~intentInitialized
    /\ intentInitialized' = TRUE
    /\ UNCHANGED detection

\* IntentDetectionService.disconnect destroys it.
IntentDisconnect ==
    /\ intentInitialized
    /\ intentInitialized' = FALSE
    /\ UNCHANGED detection

\* A detectIntent call, from its start to the value it resolves to.
DetectIntent(input, answer) ==
    /\ detection' = [called |-> TRUE, initialized |-> intentInitialized,
                     input |-> input, answer |-> answer,
                     result |-> detectIntent(intentInitialized, input, answer)]
    /\ UNCHANGED intentInitialized

ClassifyInit ==
    /\ PollIdle
    /\ DispatchIdle
    /\ ClassifyIdle
    /\ sessions = <<>>
    /\ nextSessionId = 1
    /\ now = 0
    /\ lastResult = Returned("constructor", 0, Null)

ClassifyNext ==
    \/ IntentInitialize
    \/ IntentDisconnect
    \/ \E input \in Texts, answer \in LLMAnswers : DetectIntent(input, answer)

SpecClassify ==
    ClassifyInit /\ [][ClassifyNext /\ UNCHANGED <<storeVars, pollVars, dispatchVars, sweepVars, asyncVars>>]_vars

\* The call failed inside detectIntent: the service was not initialised, or
\* the graph gave no content to parse.
FailedInternally(d) == ~d.initialized \/ d.answer.kind \in GraphFailures

\* The LLM's text holds no JSON object with an intent and a confidence.
NotParsable(d) ==
    /\ d.initialized
    /\ d.answer.kind = "content"
    /\ \/ d.answer.json.kind # "object"
       \/ d.answer.json.confidence = Undefined

\* C20 (as stated): detectIntent always returns, and on every internal
\* failure, an LLM answer that cannot be parsed included, the result is chat
\* with confidence 0.5 and the original text as the extracted parameter.
C20_EveryFailureYieldsFallback ==
    detection.called =>
        /\ ~detection.result.threw
        /\ (FailedInternally(detection) \/ NotParsable(detection))
              => detection.result.data = detectIntentFallback(detection.input)

\* C20 (amended): detectIntent always returns; when the service is not
\* initialised, the graph fails to start or to stream, or the stream ends
\* without content, the result is chat with confidence 0.5 and the original
\* text as the extracted parameter; a text without a usable JSON object is
\* classified by the label it mentions at 0.7, or as chat at 0.6.
C20_DetectIntentIsTotal ==
    detection.called =>
        /\ ~detection.result.threw
        /\ FailedInternally(detection)
              => detection.result.data = detectIntentFallback(detection.input)
        /\ NotParsable(detection)
              => /\ detection.result.data.confidence \in {60, 70}
                 /\ detection.result.data.confidence = 60
                       <=> detection.answer.mentions = {}
                 /\ detection.result.data.confidence = 60
                       => detection.result.data.intent = "chat"

C20_Witness ==
    /\ detection.called
    /\ detection.initialized
    /\ detection.answer.kind = "no content"
    /\ detection.input = <<"Draw", "cat">>
    /\ detection.result = Resolved(detectIntentFallback(<<"Draw", "cat">>))

\* C21: for every input text and every LLM answer, the result of detectIntent
\* has a label of the fixed set and a confidence in [0,1].
C21_LabelAndConfidenceInRange ==
    detection.called =>
        /\ detection.result.data.intent \in IntentType
        /\ detection.result.data.confidence \in 0..100

(***************************************************************************)
(* processMessage on a store that already holds a session of some age      *)
(***************************************************************************)
\* The age of the session the calls find: fresh, at the timeout, past it.
SessionAges == {0, SESSION_TIMEOUT, SESSION_TIMEOUT + 1}

\* The session the calls find: created at time 0, with one uploaded image.
FirstSession == addImageTo(NewSession(1, 0), Image("A", "user_upload", 0, TextSunset), 0)

ResolveInit ==
    /\ PollIdle
    /\ ClassifyIdle
    /\ DispatchIdle
    /\ sessions = [sid \in {1} |-> FirstSession]
    /\ nextSessionId = 2
    /\ now \in SessionAges
    /\ lastResult = Returned("addImage", 1, "A")

\* processMessage calls, and deletions through the session route.
ResolveNext ==
    \/ \E m \in Messages, sid \in {NoSessionId} \cup SessionIdInputs, skip \in BOOLEAN :
          \/ PMStart(m, sid, skip)
          \/ PMStartThrows(m, sid, skip)
    \/ \E c \in DOMAIN calls :
          \/ \E r \in IntentResults : PMDetectIntent(c, r)
          \/ \E job \in Jobs : PMGenerated(c, job)
          \/ \E job \in Jobs : PMEdited(c, job)
          \/ \E ok \in BOOLEAN : PMChatted(c, ok)
    \/ \E sid \in SessionIdInputs : DeleteSession(sid) /\ UNCHANGED dispatchVars

SpecResolve == ResolveInit /\ [][ResolveNext /\ UNCHANGED <<pollVars, classifyVars, sweepVars, asyncVars>>]_vars

\* The id names a session of the store that has not timed out.
Live(sid) ==
    /\ sid \in DOMAIN sessions
    /\ now - sessions[sid].lastActivity <= SESSION_TIMEOUT

\* The call that starts in this step works in the session named by a live
\* sid, and otherwise in a session the step creates; its message carries the
\* call's sessionId.
ResolvesOrCreates(sid) ==
    LET call == calls'[Len(calls')]
    IN IF sid # NoSessionId /\ Live(sid)
       THEN /\ call.sessionId = sid
            /\ DOMAIN sessions' = DOMAIN sessions
            /\ nextSessionId' = nextSessionId
       ELSE /\ call.sessionId \notin DOMAIN sessions
            /\ call.sessionId \in DOMAIN sessions'
            /\ sessions'[call.sessionId] = NewSession(call.sessionId, now)
            /\ DOMAIN sessions' \subseteq DOMAIN sessions \cup {call.sessionId}

\* The turns a call records in this step go to the session of the call.
RecordsInOwnSession ==
    \A c \in DOMAIN calls' :
        LET sid == calls'[c].sessionId
            recorded == calls'[c].turns - (IF c \in DOMAIN calls THEN calls[c].turns ELSE 0)
        IN recorded > 0 =>
              /\ sid \in DOMAIN sessions /\ sid \in DOMAIN sessions'
              /\ sessions'[sid].metadata.totalMessages
                    = sessions[sid].metadata.totalMessages + recorded
              /\ \A o \in (DOMAIN sessions \cap DOMAIN sessions') \ {sid} :
                    sessions'[o].conversationHistory = sessions[o].conversationHistory

\* C22: processMessage with no sessionId, or with an id that is unknown or
\* expired, creates a session and handles the message in it, and the
\* returned message carries that session's id; with the id of a live session
\* it creates none and records the turn in that session.
C22_ResolveOrCreateSession ==
    [][ /\ \A m \in Messages, sid \in {NoSessionId} \cup SessionIdInputs, skip \in BOOLEAN :
              PMStart(m, sid, skip) => ResolvesOrCreates(sid)
        /\ RecordsInOwnSession ]_vars

\* A call given the id of the timed-out session has recorded its turn in the
\* session it created.
C22_Witness ==
    /\ now = SESSION_TIMEOUT + 1
    /\ 1 \notin DOMAIN sessions
    /\ Len(calls) = 1
    /\ calls[1].pc = "done"
    /\ calls[1].sessionId = 2
    /\ calls[1].turns = 1
    /\ 2 \in DOMAIN sessions
    /\ Len(sessions[2].conversationHistory) = 1

\* The turn call c records in this step is a chat turn of confidence 1.0.
RecordsChatTurn(c) ==
    LET sid == calls'[c].sessionId
        recorded == calls'[c].turns - (IF c \in DOMAIN calls THEN calls[c].turns ELSE 0)
    IN recorded > 0 =>
          LET turn == sessions'[sid].conversationHistory[Len(sessions'[sid].conversationHistory)]
          IN /\ recorded = 1
             /\ turn.detectedIntent = "chat"
             /\ turn.confidence = 100
             /\ sessions'[sid].currentContext.lastIntent = "chat"

\* C23: a processMessage call with skipIntentDetection never calls the
\* classifier and never submits an image job: it is handled by the chat graph
\* whatever its text, and the turn it records has intent chat and confidence
\* 1.0.
C23_SkipForcesChat ==
    [][ \A c \in DOMAIN calls' :
            calls'[c].skipIntentDetection /\ calls'[c].response # "threw" =>
                /\ calls'[c].detections = 0
                /\ calls'[c].jobs = 0
                /\ calls'[c].pc \in {"chatting", "done"}
                /\ calls'[c].pc = "done" => calls'[c].response \in {"chat", "fallback"}
                /\ calls'[c].context # <<>>
                /\ RecordsChatTurn(c) ]_vars

\* A call with skipIntentDetection and the text "make it" has recorded its
\* chat turn.
C23_Witness ==
    \E c \in DOMAIN calls :
        /\ calls[c].skipIntentDetection
        /\ calls[c].message = TextMakeIt
        /\ calls[c].pc = "done"
        /\ calls[c].response = "chat"
        /\ calls[c].turns = 1
        /\ calls[c].sessionId \in DOMAIN sessions
        /\ sessions[calls[c].sessionId].currentContext.lastIntent = "chat"

(***************************************************************************)
(* Concurrent processMessage calls on one session (SpecOrder)              *)
(***************************************************************************)
OrderInit ==
    /\ PollIdle
    /\ ClassifyIdle
    /\ DispatchIdle
    /\ sessions = [sid \in {1} |-> FirstSession]
    /\ nextSessionId = 2
    /\ now = 0
    /\ lastResult = Returned("addImage", 1, "A")

OrderNext ==
    \/ \E skip \in BOOLEAN :
          /\ Len(calls) < MaxConcurrent
          /\ PMBegin(TextMakeIt, 1, skip)
    \/ \E c \in DOMAIN calls :
          \/ \E r \in IntentResults : PMDetectIntent(c, r)
          \/ \E job \in Jobs : PMGenerated(c, job)
          \/ \E job \in Jobs : PMEdited(c, job)
          \/ \E ok \in BOOLEAN : PMChatted(c, ok)

SpecOrder == OrderInit /\ [][OrderNext /\ UNCHANGED <<pollVars, classifyVars, sweepVars, asyncVars>>]_vars

\* C28: the turns of concurrent processMessage calls on one session are in
\* the history in the order in which the calls complete: the step in which a
\* call completes puts its turn at the end of the history as it is then, and
\* no other step touches the history.
C28_TurnsInCompletionOrder ==
    [][ LET h == sessions[1].conversationHistory
            after == sessions'[1].conversationHistory
        IN /\ Len(after) >= Len(h)
           /\ SubSeq(after, 1, Len(h)) = h
           /\ \A c \in DOMAIN calls :
                 LET recorded == calls'[c].turns - calls[c].turns
                 IN /\ recorded = Len(after) - Len(h) \/ recorded = 0
                    /\ recorded > 0 =>
                          /\ calls[c].pc # "done" /\ calls'[c].pc = "done"
                          /\ after[Len(after)].detectedIntent = calls'[c].detectedIntent
           /\ (\A c \in DOMAIN calls : calls'[c].turns = calls[c].turns) => after = h ]_vars

\* C28 witness: the call issued second (an edit) completed first, and its
\* turn is before the turn of the call issued first (a chat).
C28_Witness ==
    /\ Len(calls) = 2
    /\ calls[1].pc = "done" /\ calls[1].detectedIntent = "chat" /\ calls[1].turns = 1
    /\ calls[2].pc = "done" /\ calls[2].detectedIntent = "edit-image" /\ calls[2].turns = 1
    /\ Len(sessions[1].conversationHistory) = 2
    /\ sessions[1].conversationHistory[1].detectedIntent = "edit-image"
    /\ sessions[1].conversationHistory[2].detectedIntent = "chat"

\* C29: a processMessage call submits at most one job to the remote image
\* API: none on the chat path, none when an edit resolves to no stored image,
\* and one while or after it waits for a generation or an edit.
C29_AtMostOneJobPerCall ==
    \A c \in DOMAIN calls :
        /\ calls[c].jobs <= 1
        /\ ( calls[c].skipIntentDetection
             \/ calls[c].detectedIntent \notin {"generate-image", "edit-image"}
             \/ calls[c].pc = "chatting" ) => calls[c].jobs = 0
        /\ (calls[c].detectedIntent = "edit-image" /\ calls[c].target = Null)
              => calls[c].jobs = 0
        /\ calls[c].pc \in {"generating", "editing"} => calls[c].jobs = 1

\* C29 witness: an edit call has resolved its target, sent its one request
\* and returned the edited image.
C29_Witness ==
    \E c \in DOMAIN calls :
        /\ calls[c].pc = "done"
        /\ calls[c].detectedIntent = "edit-image"
        /\ calls[c].target # Null
        /\ calls[c].response = "image"
        /\ calls[c].jobs = 1

(***************************************************************************)
(* The resolver's keyword step (SpecKeyword)                               *)
(***************************************************************************)
\* Instructions without a recency or origin marker: "make cat", "cat",
\* "Sunset it", "make it".
KeywordInstructions ==
    { <<"m", "a", "k", "e", " ", "c", "a", "t">>,
      TextCat,
      <<"S", "u", "n", "s", "e", "t", " ", "i", "t">>,
      TextMakeIt }

\* instruction.split(' '): the texts between the spaces.
RECURSIVE Tokens(_)
Tokens(s) ==
    IF s = <<>> THEN {<<>>}
    ELSE LET first == FirstToken(s)
         IN IF Len(first) = Len(s) THEN {first}
            ELSE {first} \cup Tokens(SubSeq(s, Len(first) + 2, Len(s)))

\* Some token of the instruction occurs in the image's description or name.
MatchesAnyToken(img, instructionLower) ==
    \E token \in Tokens(instructionLower) :
        \/ includes(toLowerCase(img.description), token)
        \/ includes(toLowerCase(img.originalName), token)

\* Images are added one after the other, each newer than those before it,
\* the active list is emptied, and the resolver is asked.
KeywordNext ==
    \/ CreateSession
    \/ \E sid \in SessionIdInputs :
          \/ SetActiveImages(sid, <<>>)
          \/ \E id \in ImageIds, by \in GeneratedBy, text \in {TextSunset, TextCat} :
                /\ ImagesAdded < MaxAddImage
                /\ AddImage(sid, Image(id, by, ImagesAdded, text))
          \/ \E instruction \in KeywordInstructions : DetermineTargetImage(sid, instruction)

SpecKeyword ==
    StoreInit
    /\ [][KeywordNext /\ UNCHANGED <<pollVars, dispatchVars, classifyVars, sweepVars, asyncVars>>]_vars

\* C30: with an empty active-image list and an instruction without marker,
\* if some token of the instruction occurs (whatever the case) in the
\* description or the file name of an image of the session, the resolver
\* returns the most recent such image.
C30_KeywordMatchesAnyToken ==
    [][ \A sid \in SessionIdInputs, instruction \in KeywordInstructions :
            ( /\ DetermineTargetImage(sid, instruction)
              /\ getSessionFound(sessions, sid, now)
              /\ sessions[sid].currentContext.activeImages = <<>> ) =>
                LET allImages == getSessionImages(sessions, sid, now)
                    matching == {i \in 1..Len(allImages) :
                                    MatchesAnyToken(allImages[i], toLowerCase(instruction))}
                IN matching # {} =>
                      lastResult'.value
                          = allImages[CHOOSE i \in matching : \A j \in matching : i <= j].id ]_vars

(***************************************************************************)
(* The resolver's recency and origin markers (SpecMarker)                  *)
(***************************************************************************)
\* Creation times of the images: uploads and generations in any order.
UploadTimes == {0, 1}

\* "make it", "edit Last", "the first", "first last", "last original".
MarkerInstructions ==
    { TextMakeIt,
      <<"e", "d", "i", "t", " ", "L", "a", "s", "t">>,
      <<"t", "h", "e", " ", "f", "i", "r", "s", "t">>,
      TextFirst \o <<" ">> \o TextLast,
      TextLast \o <<" ">> \o TextOriginal }

MarkerNext ==
    \/ CreateSession
    \/ \E sid \in SessionIdInputs :
          \/ SetActiveImages(sid, <<>>)
          \/ \E id \in ImageIds, by \in GeneratedBy, t \in UploadTimes :
                /\ ImagesAdded < MaxAddImage
                /\ AddImage(sid, Image(id, by, t, TextSunset))
          \/ \E instruction \in MarkerInstructions : DetermineTargetImage(sid, instruction)

SpecMarker ==
    StoreInit
    /\ [][MarkerNext /\ UNCHANGED <<pollVars, dispatchVars, classifyVars, sweepVars, asyncVars>>]_vars

\* The images of a session, uploads and generations together.
ImagesOf(sid) ==
    {sessions[sid].uploadedImages[i] : i \in 1..Len(sessions[sid].uploadedImages)}
    \cup {sessions[sid].generatedImages[i] : i \in 1..Len(sessions[sid].generatedImages)}

HasRecencyMarker(instruction) ==
    includes(toLowerCase(instruction), TextLast) \/ includes(toLowerCase(instruction), TextRecent)

HasOriginMarker(instruction) ==
    includes(toLowerCase(instruction), TextFirst) \/ includes(toLowerCase(instruction), TextOriginal)

IsNewestOf(sid, id) ==
    \E img \in ImagesOf(sid) :
        img.id = id /\ \A other \in ImagesOf(sid) : other.uploadedAt <= img.uploadedAt

IsOldestOf(sid, id) ==
    \E img \in ImagesOf(sid) :
        img.id = id /\ \A other \in ImagesOf(sid) : other.uploadedAt >= img.uploadedAt

TouchUpdates == UpdateInputs \cup { [lastActivity |-> 0] }

\* One session at a time is live.
TouchNext ==
    \/ sessions = <<>> /\ CreateSession
    \/ CleanupExpiredSessions
    \/ \E d \in TickInputs : Tick(d)
    \/ \E sid \in SessionIdInputs :
        \/ GetSession(sid)
        \/ /\ ImagesAdded < MaxAddImage - 1
           /\ AddImage(sid, Image("A", "user_upload", now, TextSunset))
        \/ /\ sid \in DOMAIN sessions => sessions[sid].metadata.totalMessages < MaxTurns - 2
           /\ AddConversationTurn(sid, Turn(1, "chat"))
        \/ SetActiveImages(sid, <<"ghost">>)
        \/ \E updates \in TouchUpdates : UpdateSession(sid, updates)

SpecTouch ==
    StoreInit
    /\ [][TouchNext /\ UNCHANGED <<pollVars, dispatchVars, classifyVars, sweepVars, asyncVars>>]_vars

\* C32: every successful addConversationTurn, addImage, setActiveImages and
\* updateSession leaves the session's lastActivity at the current time; and
\* no step of the store (a call, the sweep, the clock) removes a session
\* whose lastActivity is not older than the timeout, so a session mutated at
\* time t is still there at every time up to t + timeout.
C32_MutationsTouch ==
    [][ /\ (lastResult'.op \in MutatingOps /\ lastResult'.ok /\ now' = now)
            => /\ lastResult'.sessionId \in DOMAIN sessions'
               /\ sessions'[lastResult'.sessionId].lastActivity = now
        /\ \A sid \in DOMAIN sessions :
              now - sessions[sid].lastActivity <= SESSION_TIMEOUT
                  => sid \in DOMAIN sessions' /\ getSessionFound(sessions, sid, now) ]_vars

\* updateSession has succeeded on a session created more than the timeout
\* ago, which mutations have kept alive.
C32_Witness ==
    /\ lastResult.op = "updateSession"
    /\ lastResult.ok
    /\ lastResult.sessionId \in DOMAIN sessions
    /\ LET s == sessions[lastResult.sessionId]
       IN /\ now - s.createdAt > SESSION_TIMEOUT
          /\ s.lastActivity = now
          /\ s.metadata.totalMessages > 0

(***************************************************************************)
(* POST /api/chat, the unified chat route (SpecRoute)                      *)
(***************************************************************************)
\* The request waits for the route's own detectIntent; its session is not
\* settled yet, sessionId is the one of the request body.
Request(message, sid, skip) ==
    [Call(message, sid, skip) EXCEPT !.pc = "route-classify"]

\* `!message`: the route answers 400 before it does anything.
Rejected400(message, sid, skip) ==
    [Call(message, sid, skip) EXCEPT !.pc = "done", !.response = "400"]

\* The streaming branch up to the remote job: the image services are called
\* directly, not through processMessage.
routeStream(st, t) ==
    LET sid == st.call.sessionId
        target == determineTargetImage(st.sessions, sid, st.call.message, t)
    IN IF st.call.detectedIntent = "generate-image"
       THEN IF IsBlank(st.call.message)
            THEN [st EXCEPT !.call.pc = "done", !.call.response = "failure"]
            ELSE [st EXCEPT !.call.pc = "stream-generating", !.call.jobs = @ + 1]
       ELSE IF target = Null
               \/ ~(MapHas(st.sessions[sid].uploadedImages, target)
                    \/ MapHas(st.sessions[sid].generatedImages, target))
       THEN [st EXCEPT !.call.pc = "done", !.call.response = "failure"]
       ELSE [st EXCEPT !.call.pc = "stream-editing", !.call.target = target,
                       !.call.jobs = @ + 1]

\* The streaming branch once the remote job is over: the image is stored and,
\* for a generation, ImageGenerationService appends its turn.
streamed(st, job, t) ==
    LET sid == st.call.sessionId
    IN IF job = "failed" \/ ~getSessionFound(st.sessions, sid, t)
       THEN [st EXCEPT !.sessions = getSessionStore(@, sid, t),
                       !.call.pc = "done", !.call.response = "failure"]
       ELSE LET s0 == st.sessions[sid]
                s1 == addImageTo(s0, Image(GeneratedId(s0), "flux_generation", t,
                                           st.call.message), t)
                s2 == addConversationTurnTo(
                          s1, ConversationTurn(s1.metadata.totalMessages + 1,
                                               "generate-image", 100), t)
            IN IF st.call.pc = "stream-generating"
               THEN [st EXCEPT !.sessions[sid] = s2, !.call.turns = @ + 1,
                               !.call.pc = "done", !.call.response = "image"]
               ELSE [st EXCEPT !.sessions[sid] = s1,
                               !.call.pc = "done", !.call.response = "image"]

\* The request arrives: with skipIntentDetection it goes straight to
\* processMessage, otherwise the route calls detectIntent itself.
RoutePost(message, sid, skip) ==
    /\ Len(calls) < MaxCalls
    /\ IF message = <<>>
       THEN /\ calls' = Append(calls, Rejected400(message, sid, skip))
            /\ UNCHANGED <<sessions, nextSessionId, now, lastResult, chatHistory, isInitialized>>
       ELSE IF skip
       THEN PMBegin(message, sid, skip)
       ELSE /\ calls' = Append(calls, Request(message, sid, skip))
            /\ UNCHANGED <<sessions, nextSessionId, now, lastResult, chatHistory, isInitialized>>

\* The route's detectIntent resolves. An image intent takes the streaming
\* branch on the found or created session; any other goes on to
\* processMessage(message, sessionId, false), which starts as every call does.
RouteDetected(c, r) ==
    /\ calls[c].pc = "route-classify"
    /\ LET sid == calls[c].sessionId
           found == sid # NoSessionId /\ getSessionFound(sessions, sid, now)
           looked == IF sid = NoSessionId THEN sessions
                     ELSE getSessionStore(sessions, sid, now)
           final == IF found THEN sid ELSE nextSessionId
           ss == IF found THEN looked ELSE createSessionIn(looked, nextSessionId, now)
           streaming == r.intent \in {"generate-image", "edit-image"}
           st == IF streaming
                 THEN routeStream(PM(ss, chatHistory,
                                     [calls[c] EXCEPT !.sessionId = final,
                                                      !.detectedIntent = r.intent,
                                                      !.confidence = r.confidence,
                                                      !.detections = @ + 1]), now)
                 ELSE PM(ss, chatHistory,
                         [Call(calls[c].message, final, FALSE) EXCEPT
                             !.detections = calls[c].detections + 1])
       IN /\ sessions' = st.sessions
          /\ chatHistory' = st.chatHistory
          /\ calls' = [calls EXCEPT ![c] = st.call]
          /\ nextSessionId' = IF found THEN nextSessionId ELSE nextSessionId + 1
          /\ isInitialized' = (isInitialized \/ ~streaming)
    /\ UNCHANGED <<now, lastResult>>

\* The remote job of the streaming branch is over.
RouteStreamed(c, job) ==
    /\ calls[c].pc \in {"stream-generating", "stream-editing"}
    /\ Continue(c, streamed(PM(sessions, chatHistory, calls[c]), job, now))

RouteNext ==
    \/ \E m \in Messages, sid \in {NoSessionId} \cup SessionIdInputs, skip \in BOOLEAN :
          RoutePost(m, sid, skip)
    \/ \E c \in DOMAIN calls :
          \/ \E r \in IntentResults : RouteDetected(c, r)
          \/ \E job \in Jobs : RouteStreamed(c, job)
          \/ \E r \in IntentResults : PMDetectIntent(c, r)
          \/ \E job \in Jobs : PMGenerated(c, job)
          \/ \E job \in Jobs : PMEdited(c, job)
          \/ \E ok \in BOOLEAN : PMChatted(c, ok)
    \/ \E sid \in SessionIdInputs : Upload(sid) /\ UNCHANGED dispatchVars

SpecRoute ==
    StoreInit /\ [][RouteNext /\ UNCHANGED <<pollVars, classifyVars, sweepVars, asyncVars>>]_vars

\* C33: a request to POST /api/chat calls the classifier at most once, and a
\* request answered without skipIntentDetection has called it exactly once.
C33_ClassifiedOncePerRequest ==
    \A c \in DOMAIN calls :
        /\ calls[c].detections <= 1
        /\ (calls[c].pc = "done" /\ ~calls[c].skipIntentDetection
                /\ calls[c].response \notin {"400", "threw"})
              => calls[c].detections = 1

(***************************************************************************)
(* A failed image job (SpecDispatch)                                       *)
(***************************************************************************)
\* What a session knows about its images.
ImageState(s) ==
    << s.uploadedImages, s.generatedImages, s.metadata.totalImagesUploaded,
       s.metadata.totalImagesGenerated, s.currentContext.activeImages >>

\* Call c ends in this step with the failure response of its image job.
JobFailsFor(c) ==
    /\ c \in DOMAIN calls'
    /\ calls[c].pc \in {"generating", "editing"}
    /\ calls'[c].pc = "done"
    /\ calls'[c].response = "failure"

\* C34: when the generate or edit job of a call fails (or times out), the
\* step that ends the call changes no session's uploaded images, generated
\* images, image counters or active-image list, and appends the call's turn
\* to the history of its session.
C34_FailedJobAddsNoImage ==
    [][ \A c \in DOMAIN calls :
            JobFailsFor(c) =>
                /\ \A k \in DOMAIN sessions \cap DOMAIN sessions' :
                       ImageState(sessions'[k]) = ImageState(sessions[k])
                /\ getSessionFound(sessions, calls[c].sessionId, now) =>
                       LET sid == calls[c].sessionId
                       IN /\ sid \in DOMAIN sessions'
                          /\ calls'[c].turns = 1
                          /\ sessions'[sid].conversationHistory =
                                 Append(sessions[sid].conversationHistory,
                                        ConversationTurn(sessions[sid].metadata.totalMessages + 1,
                                                         calls[c].detectedIntent,
                                                         calls[c].confidence)) ]_vars

\* An edit call has ended with the failure response after its one job: its
\* session still holds just the uploaded image, and has the turn.
C34_Witness ==
    \E c \in DOMAIN calls :
        /\ calls[c].pc = "done"
        /\ calls[c].response = "failure"
        /\ calls[c].detectedIntent = "edit-image"
        /\ calls[c].jobs = 1
        /\ calls[c].sessionId \in DOMAIN sessions
        /\ LET s == sessions[calls[c].sessionId]
           IN /\ Len(s.uploadedImages) = 1
              /\ s.generatedImages = <<>>
              /\ s.currentContext.activeImages = <<"A">>
              /\ Len(s.conversationHistory) = 1
              /\ s.conversationHistory[1].detectedIntent = "edit-image"


(***************************************************************************)
(* The completed status of pollForCompletion (SpecConvert)                 *)
(***************************************************************************)
\* a || b on texts (absent or '' is falsy) and on numbers (absent or 0).
OrText(a, b) == IF a = Null \/ a = "" THEN b ELSE a
OrNumber(a, b) == IF a = Undefined \/ a = 0 THEN b ELSE a

\* What the remote can answer on a finished job: its status, result.sample,
\* result.width, result.height and result.images, each of which may be absent.
RemoteImages ==
    { <<>>,
      << [url |-> "image-url", width |-> 768, height |-> 768, content_type |-> "image/png"] >>,
      << [url |-> Null, width |-> Undefined, height |-> Undefined, content_type |-> Null] >> }

Payloads ==
    [ status : {"Ready", "completed"}, sample : {Null, "sample-url"},
      width : {Undefined, 640}, height : {Undefined, 640}, images : RemoteImages ]

\* The dimensions of the generation request; ImageGenerationGraph sends 1024
\* for a dimension the request leaves out.
RequestedSizes == {Undefined, 512, 1024}
Requests == [ width : RequestedSizes, height : {512} ]

\* result.result?.images?.[0]?.field
FirstImage(payload, field, absent) ==
    IF payload.images = <<>> THEN absent ELSE payload.images[1][field]

\* convertedResult: the canonical result built from the remote's payload.
convertedResult(payload) ==
    [ status |-> "completed",
      images |-> << [ url |-> OrText(OrText(payload.sample, FirstImage(payload, "url", Null)), ""),
                      width |-> OrNumber(OrNumber(payload.width, FirstImage(payload, "width", Undefined)), 1024),
                      height |-> OrNumber(OrNumber(payload.height, FirstImage(payload, "height", Undefined)), 1024),
                      content_type |-> "image/jpeg" ] >> ]

\* A generation is under way on a live session: the request was sent and the
\* remote has answered the status query with a finished job.
ConvertInit ==
    /\ PollIdle
    /\ ClassifyIdle
    /\ DispatchIdle
    /\ sessions = [k \in {1} |-> NewSession(1, 0)]
    /\ nextSessionId = 2
    /\ now = 0
    /\ \E request \in Requests, payload \in Payloads :
          lastResult = Returned("getResult", 1, [request |-> request, payload |-> payload])

\* pollForCompletion returns the converted result.
PollCompleted ==
    /\ lastResult.op = "getResult"
    /\ lastResult' = Returned("pollForCompletion", 1,
                              [ request |-> lastResult.value.request,
                                payload |-> lastResult.value.payload,
                                result |-> convertedResult(lastResult.value.payload) ])
    /\ UNCHANGED <<sessions, nextSessionId, now>>

\* ImageGenerationGraph.execute, steps 2 to 4: the result must be completed
\* and hold an image, whose url becomes the storageUrl of the stored image.
execute(ss, result, t) ==
    IF result.status # "completed" \/ result.images = <<>>
    THEN ss
    ELSE [ss EXCEPT ![1] =
             addImageTo(@, [Image(GeneratedId(@), "flux_generation", t, TextSunset)
                               EXCEPT !.storageUrl = result.images[1].url], t)]

Execute ==
    /\ lastResult.op = "pollForCompletion"
    /\ sessions' = execute(sessions, lastResult.value.result, now)
    /\ lastResult' = [ op |-> "execute", sessionId |-> 1,
                       ok |-> sessions' # sessions, value |-> lastResult.value ]
    /\ UNCHANGED <<nextSessionId, now>>

ConvertNext == PollCompleted \/ Execute

SpecConvert ==
    ConvertInit
    /\ [][ConvertNext /\ UNCHANGED <<pollVars, dispatchVars, classifyVars, sweepVars, asyncVars>>]_vars

\* A value the remote has given.
GivenNumber(n) == n # Undefined
GivenText(x) == x # Null

\* C35: on a completed status the result holds one image; its URL is the
\* remote's; its width and height are the remote's when the remote gives
\* them and otherwise those of the generation request; its content type is
\* the remote's when given and otherwise image/jpeg.
C35_CompletedResultIsCanonical ==
    lastResult.op = "pollForCompletion" =>
        LET request == lastResult.value.request
            payload == lastResult.value.payload
            images == lastResult.value.result.images
            remoteUrl == IF GivenText(payload.sample) THEN payload.sample
                         ELSE FirstImage(payload, "url", Null)
            remoteWidth == IF GivenNumber(payload.width) THEN payload.width
                           ELSE FirstImage(payload, "width", Undefined)
            remoteHeight == IF GivenNumber(payload.height) THEN payload.height
                            ELSE FirstImage(payload, "height", Undefined)
            remoteType == FirstImage(payload, "content_type", Null)
            requestedWidth == IF GivenNumber(request.width) THEN request.width ELSE 1024
        IN /\ lastResult.value.result.status = "completed"
           /\ Len(images) = 1
           /\ GivenText(remoteUrl) => images[1].url = remoteUrl
           /\ images[1].width = IF GivenNumber(remoteWidth) THEN remoteWidth ELSE requestedWidth
           /\ images[1].height = IF GivenNumber(remoteHeight) THEN remoteHeight ELSE request.height
           /\ images[1].content_type = IF GivenText(remoteType) THEN remoteType ELSE "image/jpeg"


\* C40: every image that ImageGenerationGraph.execute has stored has a
\* non-empty storageUrl, the URL the remote returned for the completed job.
C40_StoredUrlIsTheRemoteUrl ==
    (lastResult.op = "execute" /\ lastResult.ok) =>
        LET payload == lastResult.value.payload
            stored == sessions[1].generatedImages
        IN /\ Len(stored) = 1
           /\ stored[1].storageUrl # ""
           /\ stored[1].storageUrl
                 = (IF GivenText(payload.sample) THEN payload.sample
                    ELSE FirstImage(payload, "url", Null))


(***************************************************************************)
(* The sweep over several sessions (SpecCleanup)                           *)
(***************************************************************************)
\* Two sessions: the first was created at time 0 and holds an image, the
\* second has just been created, half a timeout later.
CleanupInit ==
    /\ PollIdle
    /\ ClassifyIdle
    /\ DispatchIdle
    /\ now = SESSION_TIMEOUT \div 2
    /\ sessions = [k \in {1, 2} |-> IF k = 1 THEN FirstSession ELSE NewSession(2, now)]
    /\ nextSessionId = 3
    /\ lastResult = Returned("createSession", 2, Null)

CleanupNext ==
    \/ CleanupExpiredSessions
    \/ \E d \in TickInputs : Tick(d)
    \/ \E sid \in {1, 2} :
        \/ GetSession(sid)
        \/ /\ sid \in DOMAIN sessions => sessions[sid].metadata.totalMessages < MaxTurns - 2
           /\ AddConversationTurn(sid, Turn(1, "chat"))

SpecCleanup ==
    CleanupInit
    /\ [][CleanupNext /\ UNCHANGED <<pollVars, dispatchVars, classifyVars, sweepVars, asyncVars>>]_vars

\* C36: a run of cleanupExpiredSessions removes exactly the sessions whose
\* lastActivity is older than the timeout at that moment, and leaves every
\* other session in the store as it was.
C36_SweepRemovesExactlyTheExpired ==
    [][ CleanupExpiredSessions =>
          /\ DOMAIN sessions' =
                {k \in DOMAIN sessions : now - sessions[k].lastActivity <= SESSION_TIMEOUT}
          /\ \A k \in DOMAIN sessions' : sessions'[k] = sessions[k] ]_vars

\* The sweep has run while the first session was past the timeout and the
\* second, touched by a turn, was exactly at it: only the second is left.
C36_Witness ==
    /\ lastResult.op = "cleanupExpiredSessions"
    /\ DOMAIN sessions = {2}
    /\ sessions[2].metadata.totalMessages = 1
    /\ now - sessions[2].lastActivity = SESSION_TIMEOUT


(***************************************************************************)
(* The two edit-target resolvers (SpecAgree)                               *)
(***************************************************************************)
\* InMemorySessionManager.determineImageEditTarget: the first active image
\* that resolves, else the newest upload; the id of the image it returns.
determineImageEditTarget(ss, sid, editInstruction, t) ==
    IF ~getSessionFound(ss, sid, t) THEN Null
    ELSE LET activeImages == getActiveImages(ss, sid, t)
             allImages == getSessionImages(ss, sid, t)
             uploadedImages == SelectSeq(allImages, LAMBDA img : img.generatedBy = "user_upload")
         IN IF Len(activeImages) > 0 THEN activeImages[1].id
            ELSE IF Len(uploadedImages) > 0 THEN uploadedImages[1].id
            ELSE Null

DetermineImageEditTarget(sid, editInstruction) ==
    Read("determineImageEditTarget", sid,
         determineImageEditTarget(sessions, sid, editInstruction, now))

AgreeNext ==
    \/ CreateSession
    \/ \E sid \in SessionIdInputs :
          \/ \E ids \in {<<>>, <<"ghost">>} : SetActiveImages(sid, ids)
          \/ \E id \in ImageIds, by \in GeneratedBy, t \in UploadTimes :
                /\ ImagesAdded < MaxAddImage
                /\ AddImage(sid, Image(id, by, t, TextSunset))
          \/ \E instruction \in MarkerInstructions :
                \/ DetermineTargetImage(sid, instruction)
                \/ DetermineImageEditTarget(sid, instruction)

SpecAgree ==
    StoreInit
    /\ [][AgreeNext /\ UNCHANGED <<pollVars, dispatchVars, classifyVars, sweepVars, asyncVars>>]_vars

\* C37: on every session state and instruction, determineImageEditTarget
\* returns the image (or none) that determineTargetImage returns.
C37_ResolversAgree ==
    [][ \A sid \in SessionIdInputs, instruction \in MarkerInstructions :
            DetermineImageEditTarget(sid, instruction) =>
                lastResult'.value = determineTargetImage(sessions, sid, instruction, now) ]_vars


(***************************************************************************)
(* updateSession with any Partial<SessionState> (SpecUpdate)               *)
(***************************************************************************)
\* Updates the type allows: a history of 51 turns, an active list of 12 ids,
\* another sessionId.
WideUpdates ==
    { [conversationHistory |-> Fill(Turn(1, "chat"), MAX_CONVERSATION_HISTORY + 1)],
      [currentContext |-> [lastIntent |-> Null,
                           activeImages |-> Fill("B", MAX_ACTIVE_IMAGES + 2),
                           pendingAction |-> Null]],
      [sessionId |-> MaxSessions + 1] }

UpdateNext ==
    \/ MutateNext
    \/ \E sid \in SessionIdInputs, updates \in WideUpdates : UpdateSession(sid, updates)

SpecUpdate ==
    StoreInit
    /\ [][UpdateNext /\ UNCHANGED <<pollVars, dispatchVars, classifyVars, sweepVars, asyncVars>>]_vars

\* C38: after an updateSession the session holds at most
\* MAX_CONVERSATION_HISTORY turns and at most MAX_ACTIVE_IMAGES active ids,
\* and is stored under the key equal to its sessionId field.
C38_UpdatePreservesBounds ==
    (lastResult.op = "updateSession" /\ lastResult.ok) =>
        \A k \in DOMAIN sessions :
            /\ Len(sessions[k].conversationHistory) <= MAX_CONVERSATION_HISTORY
            /\ Len(sessions[k].currentContext.activeImages) <= MAX_ACTIVE_IMAGES
            /\ sessions[k].sessionId = k


(***************************************************************************)
(* A session that goes away under a suspended call (SpecGone)              *)
(***************************************************************************)
GoneInit == ResolveInit /\ now = 0

\* processMessage calls on a live session, which is deleted through the
\* session route or times out while they wait.
GoneNext ==
    \/ ResolveNext
    \/ now = 0 /\ Tick(SESSION_TIMEOUT + 1) /\ UNCHANGED dispatchVars

SpecGone == GoneInit /\ [][GoneNext /\ UNCHANGED <<pollVars, classifyVars, sweepVars, asyncVars>>]_vars

\* Call c is suspended and its session is deleted or timed out.
SuspendedWithoutSession(c) ==
    /\ calls[c].pc \in {"classify", "generating", "editing", "chatting"}
    /\ ~getSessionFound(sessions, calls[c].sessionId, now)

\* C39: when a processMessage call whose session was deleted, or has timed
\* out, while it waited (for the classifier, the image job or the chat
\* stream) resumes, the step adds no session to the store, leaves every
\* remaining session as it was (no image, no turn), records no turn for the
\* call, and a call that ends returns a response rather than raising.
C39_GoneSessionStaysGone ==
    [][ \A c \in DOMAIN calls :
            (SuspendedWithoutSession(c) /\ calls'[c] # calls[c]) =>
                /\ DOMAIN sessions' \subseteq DOMAIN sessions
                /\ ~getSessionFound(sessions', calls[c].sessionId, now')
                /\ \A k \in DOMAIN sessions' : sessions'[k] = sessions[k]
                /\ calls'[c].turns = calls[c].turns
                /\ calls'[c].pc = "done" => calls'[c].response \in {"fallback", "failure", "chat"} ]_vars

\* A call whose session was deleted during its image job has ended with the
\* fallback response; the store holds no session.
C39_Witness ==
    \E c \in DOMAIN calls :
        /\ calls[c].pc = "done"
        /\ calls[c].response = "fallback"
        /\ calls[c].detections = 1
        /\ calls[c].jobs = 1
        /\ calls[c].turns = 0
        /\ calls[c].sessionId = 1
        /\ sessions = <<>>

====
